---- MODULE Spec2Model ----
(***************************************************************************)
(* getdocs-ts: the type-shape resolution and serialization engine of       *)
(* src/index.ts (latest revision: src/unnamed/part_004).                   *)
(*                                                                         *)
(* The TypeScript checker is an external collaborator.  Its answers are    *)
(* the tables Sym, Ty and Sig below (symbols, type values, signatures of   *)
(* a small project); the operators translate the methods of class Context  *)
(* and the module-level helpers.  A JavaScript exception is the field err  *)
(* of a method's result; the module-level array gettingObjectTypes is the  *)
(* field stack of the state a method threads and the variable of the same  *)
(* name between calls.                                                     *)
(***************************************************************************)
EXTENDS Integers, Sequences, FiniteSets, TLC

(***************************************************************************)
(* Optional values: None is a missing field, Some(v) a present one.        *)
(***************************************************************************)
None == <<>>

Some(v) == <<v>>

IsSome(o) == o # <<>>

Get(o) == o[1]

Range(s) == {s[i] : i \in 1..Len(s)}

IsPrefix(p, s) == Len(p) <= Len(s) /\ SubSeq(s, 1, Len(p)) = p

Min(a, b) == IF a < b THEN a ELSE b

\* a sequence without its last element, and that element
Front(s) == SubSeq(s, 1, Len(s) - 1)

Last(s) == s[Len(s)]

Reverse(s) == [i \in 1..Len(s) |-> s[Len(s) + 1 - i]]

Rotate(s, k) == [i \in 1..Len(s) |-> s[((i - 1 + k) % Len(s)) + 1]]

(***************************************************************************)
(* Bounds of the model.                                                    *)
(***************************************************************************)
\* gather/gatherMany calls made in one process
MaxCalls == 2

\* units in one gatherMany batch
MaxBatch == 2

\* nested getType calls before the JavaScript engine throws RangeError
MaxDepth == 4

\* rotations the checker may apply to a symbol list it enumerates
MaxRot == 1

\* members of a union or intersection type node
MaxMembers == 4

(***************************************************************************)
(* The project on disk.  A path is its sequence of segments; rank is the   *)
(* position of the file name in JavaScript string order (fa < fb).         *)
(***************************************************************************)
FileTab ==
  ("far"   :> [path |-> <<"other", "far.ts">>, rank |-> 0]) @@
  ("dep"   :> [path |-> <<"proj", "node_modules", "dep", "index.d.ts">>, rank |-> 1]) @@
  ("lib"   :> [path |-> <<"proj", "node_modules", "typescript", "lib", "lib.es5.d.ts">>, rank |-> 2]) @@
  ("bad"   :> [path |-> <<"proj", "src", "bad.ts">>, rank |-> 3]) @@
  ("cyc"   :> [path |-> <<"proj", "src", "cyc.ts">>, rank |-> 4]) @@
  ("gen"   :> [path |-> <<"proj", "src", "default_type_arg.ts">>, rank |-> 5]) @@
  ("idx"   :> [path |-> <<"proj", "src", "idx.ts">>, rank |-> 6]) @@
  ("missing" :> [path |-> <<"proj", "src", "missing.ts">>, rank |-> 7]) @@
  ("rec"   :> [path |-> <<"proj", "src", "rec.ts">>, rank |-> 8]) @@
  ("script" :> [path |-> <<"proj", "src", "script.ts">>, rank |-> 9]) @@
  ("shp"   :> [path |-> <<"proj", "src", "shapes.ts">>, rank |-> 10]) @@
  ("sub"   :> [path |-> <<"proj", "src", "subclass_methods.ts">>, rank |-> 11]) @@
  ("vis"   :> [path |-> <<"proj", "src", "vis.ts">>, rank |-> 12]) @@
  ("utl"   :> [path |-> <<"proj", "util.ts">>, rank |-> 13])

\* the one directory that holds a tsconfig.json
ConfigDir == <<"proj">>

\* findConfigFile(searchPath, sys.fileExists): the directory of the nearest tsconfig.json
\* at or above searchPath's directory, None when there is none
findConfigFile(searchPath) ==
  IF IsPrefix(ConfigDir, Front(searchPath)) THEN Some(ConfigDir) ELSE None

EsLibNames == {"lib.es5.d.ts", "lib.es2015.core.d.ts"}

(***************************************************************************)
(* The project the checkers are created from: its symbols, types and       *)
(* signatures, by name.  It is fixed for the life of the process.          *)
(***************************************************************************)
VARIABLES Sym, Ty, Sig

(***************************************************************************)
(* Symbols as the checker describes them.  One declaration per symbol:     *)
(* declared = FALSE is a symbol without declarations; doc is the list of   *)
(* words getComments returns for the declaration; the source text has ten  *)
(* characters to a line, so pos gives line and column.                     *)
(***************************************************************************)
S(name, flags, file, pos, type) ==
  [name |-> name, flags |-> flags, declared |-> TRUE, file |-> file, pos |-> pos,
   mods |-> {}, doc |-> <<>>, type |-> type, declaredType |-> type, aliased |-> "",
   kind |-> "Other", typeNode |-> None, typeParameters |-> None,
   questionToken |-> FALSE, initializer |-> "", dotDotDotToken |-> FALSE,
   identifier |-> TRUE, heritageClauses |-> <<>>, members |-> <<>>,
   constraint |-> "", keyofConstraint |-> FALSE, typeParameter |-> "", innerType |-> ""]

\* a class or interface member node: a constructor has parameters, the others a symbol
Member(kind, sym, mods) ==
  [kind |-> kind, symbol |-> sym, mods |-> mods, parameters |-> <<>>, doc |-> <<>>,
   id |-> "", pos |-> 0]

FnDoc == <<"With", "a", "doc", "comment">>

InternalDoc == <<"@internal", "hidden">>

SymRec ==
  ("A"      :> [S("A", {"TypeAlias"}, "rec", 0, "tA") EXCEPT !.kind = "TypeAliasDeclaration"]) @@
  ("__A"    :> [S("__type", {"TypeLiteral"}, "rec", 5, "tA") EXCEPT !.kind = "TypeLiteral"]) @@
  ("A.next" :> S("next", {"Property"}, "rec", 10, "tA")) @@
  ("A.val"  :> S("val", {"Property"}, "rec", 20, "string")) @@
  ("n"      :> S("n", {"Variable"}, "rec", 40, "tA")) @@
  ("B"      :> [S("B", {"TypeAlias"}, "rec", 50, "tB") EXCEPT !.kind = "TypeAliasDeclaration"]) @@
  ("__B"    :> [S("__type", {"TypeLiteral"}, "rec", 55, "tB") EXCEPT !.kind = "TypeLiteral"]) @@
  ("B.c"    :> S("c", {"Property"}, "rec", 60, "tC")) @@
  ("C"      :> [S("C", {"TypeAlias"}, "rec", 80, "tC") EXCEPT !.kind = "TypeAliasDeclaration"]) @@
  ("__C"    :> [S("__type", {"TypeLiteral"}, "rec", 85, "tC") EXCEPT !.kind = "TypeLiteral"]) @@
  ("C.b"    :> S("b", {"Property"}, "rec", 90, "tB")) @@
  ("m"      :> S("m", {"Variable"}, "rec", 120, "tB"))

SymIdx ==
  ("M"       :> [S("M", {"TypeAlias"}, "idx", 0, "tM") EXCEPT !.kind = "TypeAliasDeclaration"]) @@
  ("__M"     :> [S("__type", {"TypeLiteral"}, "idx", 5, "tM") EXCEPT
                   !.kind = "TypeLiteral",
                   !.members = <<Member("IndexSignature", "M.index", {})>>]) @@
  ("M.index" :> S("__index", {"Signature"}, "idx", 6, "any")) @@
  ("attrs"   :> S("attrs", {"Variable"}, "idx", 30, "tM")) @@
  ("attrs2"  :> S("attrs2", {"Variable"}, "idx", 60, "tM")) @@
  ("nums"    :> S("nums", {"Variable"}, "idx", 70, "tN")) @@
  ("__N"     :> [S("__type", {"TypeLiteral"}, "idx", 75, "tN") EXCEPT
                   !.kind = "TypeLiteral",
                   !.members = <<Member("IndexSignature", "N.index", {})>>]) @@
  ("N.index" :> S("__index", {"Signature"}, "idx", 76, "any")) @@
  ("docd"    :> S("docd", {"Variable"}, "idx", 80, "tD")) @@
  ("__D"     :> [S("__type", {"TypeLiteral"}, "idx", 85, "tD") EXCEPT
                   !.kind = "TypeLiteral",
                   !.members = <<Member("IndexSignature", "D.index", {})>>]) @@
  ("D.index" :> [S("__index", {"Signature"}, "idx", 86, "any") EXCEPT !.doc = FnDoc])

SymBad ==
  ("ok"    :> S("ok", {"Variable"}, "bad", 0, "string")) @@
  ("bad"   :> S("bad", {"Variable"}, "bad", 30, "tBad")) @@
  ("__bad" :> [S("__type", {"TypeLiteral"}, "bad", 35, "tBad") EXCEPT !.kind = "TypeLiteral"]) @@
  ("bad.u" :> S("u", {"Property"}, "bad", 40, "void")) @@
  ("late"  :> S("late", {"Variable"}, "bad", 60, "number"))

\* subclass_methods.ts: abstract class Foo {a, abstract b, c, d}; class Bar extends Foo {a, b, /// doc d}
SymSub ==
  ("sub:Foo" :> [S("Foo", {"Class"}, "sub", 0, "typeof sub:Foo") EXCEPT
                   !.kind = "ClassDeclaration", !.mods = {"Abstract"},
                   !.members = <<Member("MethodDeclaration", "Foo.a", {}),
                                 Member("MethodDeclaration", "Foo.b", {"Abstract"}),
                                 Member("MethodDeclaration", "Foo.c", {}),
                                 Member("MethodDeclaration", "Foo.d", {})>>]) @@
  ("Foo.a" :> S("a", {"Method"}, "sub", 10, "tFnNum")) @@
  ("Foo.b" :> [S("b", {"Method"}, "sub", 20, "tFnNum") EXCEPT !.mods = {"Abstract"}]) @@
  ("Foo.c" :> S("c", {"Method"}, "sub", 30, "tFnNum")) @@
  ("Foo.d" :> S("d", {"Method"}, "sub", 40, "tFnNum")) @@
  ("sub:Bar" :> [S("Bar", {"Class"}, "sub", 60, "typeof sub:Bar") EXCEPT
                   !.kind = "ClassDeclaration",
                   !.heritageClauses = <<[token |-> "ExtendsKeyword", types |-> <<"inst sub:Foo">>]>>,
                   !.members = <<Member("MethodDeclaration", "Bar.a", {}),
                                 Member("MethodDeclaration", "Bar.b", {}),
                                 Member("MethodDeclaration", "Bar.d", {})>>]) @@
  ("Bar.a" :> S("a", {"Method"}, "sub", 70, "tFnNum")) @@
  ("Bar.b" :> S("b", {"Method"}, "sub", 80, "tFnNum")) @@
  ("Bar.d" :> [S("d", {"Method"}, "sub", 90, "tFnNum") EXCEPT !.doc = FnDoc]) @@
  ("prototype" :> [S("prototype", {"Property", "Prototype"}, "sub", 0, "any") EXCEPT !.declared = FALSE])

\* vis.ts: members behind the private modifier or an @internal doc comment, and their siblings
SymVis ==
  ("Vis" :> [S("Vis", {"Class"}, "vis", 0, "typeof Vis") EXCEPT
               !.kind = "ClassDeclaration",
               !.members = <<Member("PropertyDeclaration", "Vis.p", {"Private"}),
                             Member("PropertyDeclaration", "Vis.q", {}),
                             Member("PropertyDeclaration", "Vis.r", {}),
                             Member("PropertyDeclaration", "Vis.t", {"Private", "Static"}),
                             Member("PropertyDeclaration", "Vis.s", {"Static"}),
                             Member("PropertyDeclaration", "Vis.h", {"Static"}),
                             [Member("Constructor", "", {}) EXCEPT
                                !.id = "Vis.ctor", !.pos = 70,
                                !.parameters = <<[symbol |-> "Vis.px", mods |-> {"Private", "Readonly"}],
                                                 [symbol |-> "Vis.py", mods |-> {"Readonly"}],
                                                 [symbol |-> "Vis.pz", mods |-> {}]>>]>>]) @@
  ("Vis.p" :> [S("p", {"Property"}, "vis", 10, "void") EXCEPT !.mods = {"Private"}]) @@
  ("Vis.q" :> [S("q", {"Property"}, "vis", 20, "string") EXCEPT !.doc = InternalDoc]) @@
  ("Vis.r" :> S("r", {"Property"}, "vis", 30, "string")) @@
  ("Vis.t" :> [S("t", {"Property"}, "vis", 40, "string") EXCEPT !.mods = {"Private", "Static"}]) @@
  ("Vis.s" :> [S("s", {"Property"}, "vis", 50, "string") EXCEPT !.mods = {"Static"}]) @@
  ("Vis.h" :> [S("h", {"Property"}, "vis", 60, "number") EXCEPT !.mods = {"Static"}, !.doc = InternalDoc]) @@
  ("Vis.x" :> [S("x", {"Property"}, "vis", 72, "string") EXCEPT !.mods = {"Private", "Readonly"}]) @@
  ("Vis.y" :> [S("y", {"Property"}, "vis", 74, "string") EXCEPT !.mods = {"Readonly"}]) @@
  ("Vis.px" :> [S("x", {"Variable"}, "vis", 72, "string") EXCEPT !.mods = {"Private", "Readonly"}]) @@
  ("Vis.py" :> [S("y", {"Variable"}, "vis", 74, "string") EXCEPT !.mods = {"Readonly"}]) @@
  ("Vis.pz" :> S("z", {"Variable"}, "vis", 76, "string")) @@
  ("hiddenTop" :> [S("hiddenTop", {"Variable"}, "vis", 100, "void") EXCEPT !.doc = InternalDoc]) @@
  ("shown" :> S("shown", {"Variable"}, "vis", 110, "number")) @@
  ("o"     :> S("o", {"Variable"}, "vis", 120, "tO")) @@
  ("__o"   :> [S("__type", {"TypeLiteral"}, "vis", 125, "tO") EXCEPT !.kind = "TypeLiteral"]) @@
  ("o.i"   :> [S("i", {"Property"}, "vis", 130, "string") EXCEPT !.doc = InternalDoc]) @@
  ("o.j"   :> S("j", {"Property"}, "vis", 140, "string")) @@
  ("Own" :> [S("Own", {"Class"}, "vis", 150, "typeof Own") EXCEPT
               !.kind = "ClassDeclaration",
               !.members = <<Member("PropertyDeclaration", "Own.k", {}),
                             [Member("Constructor", "", {"Private"}) EXCEPT
                                !.id = "Own.ctor", !.pos = 160]>>]) @@
  ("Own.k" :> S("k", {"Property"}, "vis", 155, "string"))

\* default_type_arg.ts: class Foo<T = number, V = T[]>, interface G<A, B = number, C = B[]>,
\* interface H<P = {x: number}>, the overloaded function f(a: number): string and
\* f(a: number, b: number): number, class K<T> {static T = 1}
SymGen ==
  ("gen:Foo" :> [S("Foo", {"Class"}, "gen", 0, "typeof gen:Foo") EXCEPT
                   !.kind = "ClassDeclaration",
                   !.typeParameters = Some(<<"Foo.T", "Foo.V">>),
                   !.members = <<[Member("Constructor", "", {}) EXCEPT
                                    !.id = "Foo.ctor", !.pos = 10,
                                    !.parameters = <<[symbol |-> "Foo.pvalue", mods |-> {"Readonly"}],
                                                     [symbol |-> "Foo.pcontent", mods |-> {"Readonly"}]>>]>>]) @@
  ("Foo.T" :> [S("T", {"TypeParameter"}, "gen", 2, "T_Foo") EXCEPT !.initializer = "number"]) @@
  ("Foo.V" :> [S("V", {"TypeParameter"}, "gen", 4, "V_Foo") EXCEPT !.initializer = "T[]"]) @@
  ("Foo.value"    :> [S("value", {"Property"}, "gen", 12, "T_Foo") EXCEPT !.mods = {"Readonly"}]) @@
  ("Foo.content"  :> [S("content", {"Property"}, "gen", 14, "V_Foo") EXCEPT !.mods = {"Readonly"}]) @@
  ("Foo.pvalue"   :> [S("value", {"Variable"}, "gen", 12, "T_Foo") EXCEPT !.mods = {"Readonly"}]) @@
  ("Foo.pcontent" :> [S("content", {"Variable"}, "gen", 14, "V_Foo") EXCEPT !.mods = {"Readonly"}]) @@
  ("x" :> S("x", {"Variable"}, "gen", 30, "Foo<number,number[]>")) @@
  ("y" :> S("y", {"Variable"}, "gen", 40, "Foo<number,string>")) @@
  ("z" :> S("z", {"Variable"}, "gen", 50, "Foo<string,string[]>")) @@
  ("gen:G" :> [S("G", {"Interface"}, "gen", 60, "any") EXCEPT
                 !.kind = "InterfaceDeclaration", !.declaredType = "inst gen:G",
                 !.typeParameters = Some(<<"G.A", "G.B", "G.C">>)]) @@
  ("G.A" :> S("A", {"TypeParameter"}, "gen", 62, "A_G")) @@
  ("G.B" :> [S("B", {"TypeParameter"}, "gen", 64, "B_G") EXCEPT !.initializer = "number"]) @@
  ("G.C" :> [S("C", {"TypeParameter"}, "gen", 66, "C_G") EXCEPT !.initializer = "B[]"]) @@
  ("g1" :> S("g1", {"Variable"}, "gen", 80, "G<string,number,number[]>")) @@
  ("g2" :> S("g2", {"Variable"}, "gen", 90, "G<string,string,number[]>")) @@
  ("__ox" :> [S("__type", {"TypeLiteral"}, "gen", 100, "{x:number}") EXCEPT !.kind = "TypeLiteral"]) @@
  ("ox.x" :> S("x", {"Property"}, "gen", 102, "number")) @@
  ("__sx" :> [S("__type", {"TypeLiteral"}, "gen", 110, "{x:string}") EXCEPT !.kind = "TypeLiteral"]) @@
  ("sx.x" :> S("x", {"Property"}, "gen", 112, "string")) @@
  ("__oy" :> [S("__type", {"TypeLiteral"}, "gen", 120, "{y:number}") EXCEPT !.kind = "TypeLiteral"]) @@
  ("oy.y" :> S("y", {"Property"}, "gen", 122, "number")) @@
  ("gen:H" :> [S("H", {"Interface"}, "gen", 130, "any") EXCEPT
                 !.kind = "InterfaceDeclaration", !.declaredType = "inst gen:H",
                 !.typeParameters = Some(<<"H.P">>)]) @@
  ("H.P" :> [S("P", {"TypeParameter"}, "gen", 132, "P_H") EXCEPT !.initializer = "{x: number}"]) @@
  ("h1" :> S("h1", {"Variable"}, "gen", 150, "H<{x:string}>")) @@
  ("gen:f" :> S("f", {"Function"}, "gen", 160, "tFnF")) @@
  ("f.a1"  :> S("a", {"Variable"}, "gen", 162, "number")) @@
  ("f.a2"  :> S("a", {"Variable"}, "gen", 172, "number")) @@
  ("f.b2"  :> S("b", {"Variable"}, "gen", 174, "number")) @@
  ("gen:K" :> [S("K", {"Class"}, "gen", 200, "typeof gen:K") EXCEPT
                 !.kind = "ClassDeclaration",
                 !.typeParameters = Some(<<"K.T">>),
                 !.members = <<Member("PropertyDeclaration", "K.sT", {"Static"})>>]) @@
  ("K.T"   :> S("T", {"TypeParameter"}, "gen", 202, "T_K")) @@
  ("K.sT"  :> [S("T", {"Property"}, "gen", 210, "number") EXCEPT !.mods = {"Static"}]) @@
  ("Array"   :> S("Array", {"Interface", "Variable"}, "lib", 100, "Array<T>")) @@
  ("Array.T" :> S("T", {"TypeParameter"}, "lib", 102, "T_Array"))

\* inline_reference.ts, as part of idx.ts: type U = string | number and class Foo {x = 1}
\* are not exported; beside them an exported alias E = {y: string} and an interface
\* Dep imported from the package dep
SymInl ==
  ("U"       :> [S("U", {"TypeAlias"}, "idx", 200, "tU") EXCEPT !.kind = "TypeAliasDeclaration"]) @@
  ("a"       :> S("a", {"Variable"}, "idx", 210, "tU")) @@
  ("inl:Foo" :> [S("Foo", {"Class"}, "idx", 240, "any") EXCEPT
                   !.kind = "ClassDeclaration", !.declaredType = "inst inl:Foo",
                   !.members = <<Member("PropertyDeclaration", "inl.x", {})>>]) @@
  ("inl.x"   :> S("x", {"Property"}, "idx", 245, "number")) @@
  ("c"       :> S("c", {"Variable"}, "idx", 260, "inst inl:Foo")) @@
  ("Dep"     :> [S("Dep", {"Interface"}, "dep", 0, "any") EXCEPT
                   !.kind = "InterfaceDeclaration", !.declaredType = "inst Dep"]) @@
  ("d"       :> S("d", {"Variable"}, "idx", 270, "inst Dep")) @@
  ("E"       :> [S("E", {"TypeAlias"}, "idx", 280, "tE") EXCEPT !.kind = "TypeAliasDeclaration"]) @@
  ("__E"     :> [S("__type", {"TypeLiteral"}, "idx", 285, "tE") EXCEPT !.kind = "TypeLiteral"]) @@
  ("E.y"     :> S("y", {"Property"}, "idx", 290, "string")) @@
  ("e"       :> S("e", {"Variable"}, "idx", 300, "tE"))

\* far.ts, in a directory without tsconfig.json: type F = {v: string}; export const f: F
SymFar ==
  ("F"   :> [S("F", {"TypeAlias"}, "far", 0, "tF") EXCEPT !.kind = "TypeAliasDeclaration"]) @@
  ("__F" :> [S("__type", {"TypeLiteral"}, "far", 5, "tF") EXCEPT !.kind = "TypeLiteral"]) @@
  ("F.v" :> S("v", {"Property"}, "far", 10, "string")) @@
  ("f"   :> S("f", {"Variable"}, "far", 30, "tF"))

\* cyc.ts: type T = string | T[]; export const t: T
SymCyc ==
  ("T" :> [S("T", {"TypeAlias"}, "cyc", 0, "tT") EXCEPT !.kind = "TypeAliasDeclaration"]) @@
  ("t" :> S("t", {"Variable"}, "cyc", 30, "tT"))

\* shapes.ts, aliases: export type E1 = {y: string}; export type E2 = E1;
\* export type P<T = number> = {v: T}; type Q = {w: string} (not exported);
\* export const e1: E1, p1: P, p2: P<string>, q: Q
SymAlias ==
  ("E1"   :> [S("E1", {"TypeAlias"}, "shp", 0, "tE1") EXCEPT !.kind = "TypeAliasDeclaration"]) @@
  ("__E1" :> [S("__type", {"TypeLiteral"}, "shp", 5, "tE1") EXCEPT !.kind = "TypeLiteral"]) @@
  ("E1.y" :> S("y", {"Property"}, "shp", 7, "string")) @@
  ("E2"   :> [S("E2", {"TypeAlias"}, "shp", 10, "tE1") EXCEPT !.kind = "TypeAliasDeclaration"]) @@
  ("e1"   :> S("e1", {"Variable"}, "shp", 20, "tE1")) @@
  ("P"    :> [S("P", {"TypeAlias"}, "shp", 30, "tP") EXCEPT
                !.kind = "TypeAliasDeclaration", !.typeParameters = Some(<<"P.T">>)]) @@
  ("P.T"  :> [S("T", {"TypeParameter"}, "shp", 32, "T_P") EXCEPT !.initializer = "number"]) @@
  ("__P"  :> [S("__type", {"TypeLiteral"}, "shp", 35, "tP") EXCEPT !.kind = "TypeLiteral"]) @@
  ("P.v"  :> S("v", {"Property"}, "shp", 37, "T_P")) @@
  ("Pn.v" :> S("v", {"Property"}, "shp", 37, "number")) @@
  ("Ps.v" :> S("v", {"Property"}, "shp", 37, "string")) @@
  ("p1"   :> S("p1", {"Variable"}, "shp", 40, "P<number>")) @@
  ("p2"   :> S("p2", {"Variable"}, "shp", 50, "P<string>")) @@
  ("Q"    :> [S("Q", {"TypeAlias"}, "shp", 60, "tQ") EXCEPT !.kind = "TypeAliasDeclaration"]) @@
  ("__Q"  :> [S("__type", {"TypeLiteral"}, "shp", 65, "tQ") EXCEPT !.kind = "TypeLiteral"]) @@
  ("Q.w"  :> S("w", {"Property"}, "shp", 67, "string")) @@
  ("q"    :> S("q", {"Variable"}, "shp", 70, "tQ"))

\* shapes.ts, constructors: export class Ov with the overloads /** @internal */
\* constructor(a: string), constructor(a: number), constructor(a: number, b: number)
\* and the implementation constructor(a: any, b?: any) {}; export class Pv
\* {private constructor() {}}
SymCtor ==
  ("Ov" :> [S("Ov", {"Class"}, "shp", 100, "typeof Ov") EXCEPT
              !.kind = "ClassDeclaration",
              !.members = <<[Member("Constructor", "", {}) EXCEPT
                               !.id = "Ov.c1", !.pos = 110, !.doc = InternalDoc,
                               !.parameters = <<[symbol |-> "Ov.a1", mods |-> {}]>>],
                            [Member("Constructor", "", {}) EXCEPT
                               !.id = "Ov.c2", !.pos = 120,
                               !.parameters = <<[symbol |-> "Ov.a2", mods |-> {}]>>],
                            [Member("Constructor", "", {}) EXCEPT
                               !.id = "Ov.c3", !.pos = 130,
                               !.parameters = <<[symbol |-> "Ov.a3", mods |-> {}],
                                                [symbol |-> "Ov.b3", mods |-> {}]>>],
                            [Member("Constructor", "", {}) EXCEPT
                               !.id = "Ov.c4", !.pos = 140,
                               !.parameters = <<[symbol |-> "Ov.a4", mods |-> {}],
                                                [symbol |-> "Ov.b4", mods |-> {}]>>]>>]) @@
  ("Ov.a1" :> S("a", {"Variable"}, "shp", 112, "string")) @@
  ("Ov.a2" :> S("a", {"Variable"}, "shp", 122, "number")) @@
  ("Ov.a3" :> S("a", {"Variable"}, "shp", 132, "number")) @@
  ("Ov.b3" :> S("b", {"Variable"}, "shp", 134, "number")) @@
  ("Ov.a4" :> S("a", {"Variable"}, "shp", 142, "any")) @@
  ("Ov.b4" :> [S("b", {"Variable"}, "shp", 144, "any") EXCEPT !.questionToken = TRUE]) @@
  ("Pv" :> [S("Pv", {"Class"}, "shp", 150, "typeof Pv") EXCEPT
              !.kind = "ClassDeclaration",
              !.members = <<[Member("Constructor", "", {"Private"}) EXCEPT
                               !.id = "Pv.c1", !.pos = 160]>>])

\* shapes.ts, heritage: export type Pt<T> = {x: T, y: T}; export interface Base {u: string};
\* export interface Mid extends Base {m: string};
\* export class Im implements Pt<string>, Mid { get x(); /// doc get y(); get z(); u = "";
\* /// @internal m = ""; private k = 1; constructor(protected w: number, readonly r: number) {} };
\* export class Em extends Im { get z() }
SymHeritage ==
  ("Pt"    :> [S("Pt", {"TypeAlias"}, "shp", 200, "tPt") EXCEPT
                 !.kind = "TypeAliasDeclaration", !.typeParameters = Some(<<"Pt.T">>)]) @@
  ("Pt.T"  :> S("T", {"TypeParameter"}, "shp", 202, "T_Pt")) @@
  ("__Pt"  :> [S("__type", {"TypeLiteral"}, "shp", 205, "tPt") EXCEPT !.kind = "TypeLiteral"]) @@
  ("Pt.x"  :> S("x", {"Property"}, "shp", 206, "T_Pt")) @@
  ("Pt.y"  :> S("y", {"Property"}, "shp", 208, "T_Pt")) @@
  ("Pts.x" :> S("x", {"Property"}, "shp", 206, "string")) @@
  ("Pts.y" :> S("y", {"Property"}, "shp", 208, "string")) @@
  ("Base"  :> [S("Base", {"Interface"}, "shp", 210, "any") EXCEPT
                 !.kind = "InterfaceDeclaration", !.declaredType = "inst Base",
                 !.members = <<Member("PropertySignature", "Base.u", {})>>]) @@
  ("Base.u" :> S("u", {"Property"}, "shp", 215, "string")) @@
  ("Mid"   :> [S("Mid", {"Interface"}, "shp", 220, "any") EXCEPT
                 !.kind = "InterfaceDeclaration", !.declaredType = "inst Mid",
                 !.heritageClauses = <<[token |-> "ExtendsKeyword", types |-> <<"inst Base">>]>>,
                 !.members = <<Member("PropertySignature", "Mid.m", {})>>]) @@
  ("Mid.m" :> S("m", {"Property"}, "shp", 225, "string")) @@
  ("Im"    :> [S("Im", {"Class"}, "shp", 230, "typeof Im") EXCEPT
                 !.kind = "ClassDeclaration",
                 !.heritageClauses = <<[token |-> "ImplementsKeyword",
                                        types |-> <<"Pt<string>", "inst Mid">>]>>,
                 !.members = <<Member("GetAccessor", "Im.x", {}),
                               Member("GetAccessor", "Im.y", {}),
                               Member("GetAccessor", "Im.z", {}),
                               Member("PropertyDeclaration", "Im.u", {}),
                               Member("PropertyDeclaration", "Im.m", {}),
                               Member("PropertyDeclaration", "Im.k", {"Private"}),
                               [Member("Constructor", "", {}) EXCEPT
                                  !.id = "Im.c1", !.pos = 260,
                                  !.parameters = <<[symbol |-> "Im.pw", mods |-> {"Protected"}],
                                                   [symbol |-> "Im.pr", mods |-> {"Readonly"}]>>]>>]) @@
  ("Im.x"  :> S("x", {"GetAccessor"}, "shp", 232, "string")) @@
  ("Im.y"  :> [S("y", {"GetAccessor"}, "shp", 238, "string") EXCEPT !.doc = FnDoc]) @@
  ("Im.z"  :> S("z", {"GetAccessor"}, "shp", 242, "string")) @@
  ("Im.u"  :> S("u", {"Property"}, "shp", 246, "string")) @@
  ("Im.m"  :> [S("m", {"Property"}, "shp", 250, "string") EXCEPT !.doc = InternalDoc]) @@
  ("Im.k"  :> [S("k", {"Property"}, "shp", 256, "number") EXCEPT !.mods = {"Private"}]) @@
  ("Im.w"  :> [S("w", {"Property"}, "shp", 262, "number") EXCEPT !.mods = {"Protected"}]) @@
  ("Im.r"  :> [S("r", {"Property"}, "shp", 266, "number") EXCEPT !.mods = {"Readonly"}]) @@
  ("Im.pw" :> [S("w", {"Variable"}, "shp", 262, "number") EXCEPT !.mods = {"Protected"}]) @@
  ("Im.pr" :> [S("r", {"Variable"}, "shp", 266, "number") EXCEPT !.mods = {"Readonly"}]) @@
  ("Em"    :> [S("Em", {"Class"}, "shp", 280, "typeof Em") EXCEPT
                 !.kind = "ClassDeclaration",
                 !.heritageClauses = <<[token |-> "ExtendsKeyword", types |-> <<"inst Im">>]>>,
                 !.members = <<Member("GetAccessor", "Em.z", {})>>]) @@
  ("Em.z"  :> S("z", {"GetAccessor"}, "shp", 285, "string"))

\* shapes.ts, type parameters: export type Sh<T> = {g: T, f: <T, U extends T>(a: T, b: U) => T};
\* export let esc, a variable whose type is the type parameter T of f
SymScope ==
  ("Sh"     :> [S("Sh", {"TypeAlias"}, "shp", 300, "tSh") EXCEPT
                  !.kind = "TypeAliasDeclaration", !.typeParameters = Some(<<"Sh.T">>)]) @@
  ("Sh.T"   :> S("T", {"TypeParameter"}, "shp", 302, "T_Sh")) @@
  ("__Sh"   :> [S("__type", {"TypeLiteral"}, "shp", 305, "tSh") EXCEPT !.kind = "TypeLiteral"]) @@
  ("Sh.g"   :> S("g", {"Property"}, "shp", 307, "T_Sh")) @@
  ("Sh.f"   :> S("f", {"Property"}, "shp", 310, "tShf")) @@
  ("__Shf"  :> [S("__type", {"TypeLiteral"}, "shp", 312, "tShf") EXCEPT !.kind = "FunctionType"]) @@
  ("Sh.f.T" :> S("T", {"TypeParameter"}, "shp", 313, "T_Shf")) @@
  ("Sh.f.U" :> [S("U", {"TypeParameter"}, "shp", 315, "U_Shf") EXCEPT !.constraint = "T_Shf"]) @@
  ("Sh.f.a" :> S("a", {"Variable"}, "shp", 320, "T_Shf")) @@
  ("Sh.f.b" :> S("b", {"Variable"}, "shp", 322, "U_Shf")) @@
  ("esc"    :> S("esc", {"Variable"}, "shp", 330, "T_Shf"))

\* shapes.ts, kinds: export {f as rf} from "../../other/far"; export {helper as rh} from
\* "../util"; export {Dep as rd} from "dep"; export {E1 as re}; export class CI {} merged
\* with interface CI {}; export type VT = number merged with const VT = 1;
\* export namespace N {}.  util.ts: export const helper: number
SymKinds ==
  ("rf" :> [S("rf", {"Alias"}, "shp", 400, "any") EXCEPT !.aliased = "f"]) @@
  ("rh" :> [S("rh", {"Alias"}, "shp", 410, "any") EXCEPT !.aliased = "helper"]) @@
  ("rd" :> [S("rd", {"Alias"}, "shp", 420, "any") EXCEPT !.aliased = "Dep"]) @@
  ("re" :> [S("re", {"Alias"}, "shp", 430, "any") EXCEPT !.aliased = "E1"]) @@
  ("helper" :> S("helper", {"Variable"}, "utl", 0, "number")) @@
  ("CI" :> [S("CI", {"Class", "Interface"}, "shp", 440, "typeof CI") EXCEPT
              !.kind = "ClassDeclaration"]) @@
  ("VT" :> [S("VT", {"TypeAlias", "Variable"}, "shp", 450, "number") EXCEPT
              !.kind = "TypeAliasDeclaration"]) @@
  ("N"  :> [S("N", {"ValueModule"}, "shp", 460, "any") EXCEPT !.kind = "ModuleDeclaration"])

\* shapes.ts, mapped types: export type Mp<T> = {[K in keyof T]: T[K]};
\* export type R = {[K in string]: K}
SymMapped ==
  ("Mp"    :> [S("Mp", {"TypeAlias"}, "shp", 500, "tMp") EXCEPT
                !.kind = "TypeAliasDeclaration", !.typeParameters = Some(<<"Mp.T">>)]) @@
  ("Mp.T"  :> S("T", {"TypeParameter"}, "shp", 502, "T_Mp")) @@
  ("__Mp"  :> [S("__type", {"TypeLiteral"}, "shp", 505, "tMp") EXCEPT
                !.kind = "MappedType", !.typeParameter = "Mp.K", !.innerType = "T_Mp[K_Mp]"]) @@
  ("Mp.K"  :> [S("K", {"TypeParameter"}, "shp", 506, "K_Mp") EXCEPT
                !.constraint = "T_Mp", !.keyofConstraint = TRUE]) @@
  ("R"    :> [S("R", {"TypeAlias"}, "shp", 520, "tR") EXCEPT !.kind = "TypeAliasDeclaration"]) @@
  ("__R"  :> [S("__type", {"TypeLiteral"}, "shp", 525, "tR") EXCEPT
                !.kind = "MappedType", !.typeParameter = "R.K", !.innerType = "K_R"]) @@
  ("R.K"  :> [S("K", {"TypeParameter"}, "shp", 526, "K_R") EXCEPT !.constraint = "string"])

SymShp == SymAlias @@ SymCtor @@ SymHeritage @@ SymScope @@ SymKinds @@ SymMapped

SymTab ==
  SymRec @@ SymIdx @@ SymInl @@ SymBad @@ SymSub @@ SymVis @@ SymGen @@ SymFar @@ SymCyc @@ SymShp

(***************************************************************************)
(* Type values as the checker describes them.  A type is named by a        *)
(* string; two names are two Type objects (identity for the recursion      *)
(* guard).                                                                 *)
(***************************************************************************)
T(flags) ==
  [flags |-> flags, intrinsicName |-> "", value |-> "", aliasSymbol |-> "",
   aliasTypeArguments |-> None, types |-> <<>>, symbol |-> "", objectFlags |-> {},
   typeArguments |-> None, target |-> "", typeParameters |-> None, properties |-> <<>>,
   callSignatures |-> <<>>, constructSignatures |-> <<>>,
   stringIndexType |-> "", numberIndexType |-> "", default |-> "", nonNullable |-> ""]

\* an anonymous object type (type literal, function type, static side of a class)
Anon(symbol, props) ==
  [T({"Object"}) EXCEPT !.symbol = symbol, !.objectFlags = {"Anonymous"}, !.properties = props]

\* the declared (instance) type of a class or interface: its own generic target
Declared(kind, symbol, params, props) ==
  [T({"Object"}) EXCEPT !.symbol = symbol, !.objectFlags = {kind, "Reference"},
                        !.typeParameters = IF params = <<>> THEN None ELSE Some(params),
                        !.typeArguments = Some(params), !.properties = props]

\* an instantiation of a generic target
Ref(symbol, target, args) ==
  [T({"Object"}) EXCEPT !.symbol = symbol, !.objectFlags = {"Reference"},
                        !.target = target, !.typeArguments = Some(args)]

TypeParam(symbol, default) ==
  [T({"TypeParameter"}) EXCEPT !.symbol = symbol, !.default = default]

TyPrim ==
  ("any"       :> T({"Any"})) @@
  ("string"    :> T({"String"})) @@
  ("number"    :> T({"Number"})) @@
  ("boolean"   :> [T({"Boolean", "Union"}) EXCEPT !.types = <<"false", "true">>]) @@
  ("undefined" :> T({"Undefined"})) @@
  ("null"      :> T({"Null"})) @@
  ("void"      :> T({"Void"})) @@
  ("never"     :> T({"Never"})) @@
  ("unknown"   :> T({"Unknown"})) @@
  ("true"      :> [T({"BooleanLiteral"}) EXCEPT !.intrinsicName = "true"]) @@
  ("false"     :> [T({"BooleanLiteral"}) EXCEPT !.intrinsicName = "false"]) @@
  ("this"      :> T({"TypeParameter"}))

TyObj ==
  ("tA"   :> [Anon("__A", <<"A.next", "A.val">>) EXCEPT !.aliasSymbol = "A"]) @@
  ("tB"   :> [Anon("__B", <<"B.c">>) EXCEPT !.aliasSymbol = "B"]) @@
  ("tC"   :> [Anon("__C", <<"C.b">>) EXCEPT !.aliasSymbol = "C"]) @@
  ("tM"   :> [Anon("__M", <<>>) EXCEPT !.aliasSymbol = "M", !.stringIndexType = "string"]) @@
  ("tN"   :> [Anon("__N", <<>>) EXCEPT !.numberIndexType = "number"]) @@
  ("tD"   :> [Anon("__D", <<>>) EXCEPT !.stringIndexType = "string"]) @@
  ("tU"   :> [T({"Union"}) EXCEPT !.types = <<"string", "number">>, !.aliasSymbol = "U"]) @@
  ("tE"   :> [Anon("__E", <<"E.y">>) EXCEPT !.aliasSymbol = "E"]) @@
  ("tF"   :> [Anon("__F", <<"F.v">>) EXCEPT !.aliasSymbol = "F"]) @@
  ("tT"   :> [T({"Union"}) EXCEPT !.types = <<"string", "Array<tT>">>, !.aliasSymbol = "T"]) @@
  ("tBad" :> Anon("__bad", <<"bad.u">>)) @@
  ("tO"   :> Anon("__o", <<"o.i", "o.j">>)) @@
  ("{x:number}" :> Anon("__ox", <<"ox.x">>)) @@
  ("{x:string}" :> Anon("__sx", <<"sx.x">>)) @@
  ("{y:number}" :> Anon("__oy", <<"oy.y">>)) @@
  ("tFnNum" :> [Anon("Foo.a", <<>>) EXCEPT !.callSignatures = <<"sigNum">>]) @@
  ("tFnF"   :> [Anon("gen:f", <<>>) EXCEPT !.callSignatures = <<"f.1", "f.2">>])

TyClass ==
  ("typeof sub:Foo" :> [Anon("sub:Foo", <<"prototype">>) EXCEPT !.constructSignatures = <<"sub:Foo.new">>]) @@
  ("inst sub:Foo"   :> [Declared("Class", "sub:Foo", <<>>, <<"Foo.a", "Foo.b", "Foo.c", "Foo.d">>)
                          EXCEPT !.target = "inst sub:Foo"]) @@
  ("typeof sub:Bar" :> [Anon("sub:Bar", <<"prototype">>) EXCEPT !.constructSignatures = <<"sub:Bar.new">>]) @@
  ("inst sub:Bar"   :> [Declared("Class", "sub:Bar", <<>>, <<"Bar.a", "Bar.b", "Bar.d", "Foo.c">>)
                          EXCEPT !.target = "inst sub:Bar"]) @@
  ("typeof Vis"     :> [Anon("Vis", <<"prototype", "Vis.t", "Vis.s", "Vis.h">>)
                          EXCEPT !.constructSignatures = <<"Vis.new">>]) @@
  ("inst Vis"       :> [Declared("Class", "Vis", <<>>, <<"Vis.p", "Vis.q", "Vis.r", "Vis.x", "Vis.y">>)
                          EXCEPT !.target = "inst Vis"]) @@
  ("typeof Own"     :> [Anon("Own", <<"prototype">>) EXCEPT !.constructSignatures = <<"Own.new">>]) @@
  ("inst Own"       :> [Declared("Class", "Own", <<>>, <<"Own.k">>) EXCEPT !.target = "inst Own"]) @@
  ("inst inl:Foo"   :> [Declared("Class", "inl:Foo", <<>>, <<"inl.x">>) EXCEPT !.target = "inst inl:Foo"]) @@
  ("inst Dep"       :> [Declared("Interface", "Dep", <<>>, <<>>) EXCEPT !.target = "inst Dep"]) @@
  ("typeof gen:Foo" :> [Anon("gen:Foo", <<"prototype">>) EXCEPT !.constructSignatures = <<"Foo.new">>]) @@
  ("inst gen:Foo"   :> [Declared("Class", "gen:Foo", <<"T_Foo", "V_Foo">>, <<"Foo.value", "Foo.content">>)
                          EXCEPT !.target = "inst gen:Foo"]) @@
  ("typeof gen:K"   :> [Anon("gen:K", <<"prototype", "K.sT">>) EXCEPT !.constructSignatures = <<"K.new">>]) @@
  ("inst gen:K"     :> [Declared("Class", "gen:K", <<"T_K">>, <<>>) EXCEPT !.target = "inst gen:K"]) @@
  ("inst gen:G"     :> [Declared("Interface", "gen:G", <<"A_G", "B_G", "C_G">>, <<>>)
                          EXCEPT !.target = "inst gen:G"]) @@
  ("inst gen:H"     :> [Declared("Interface", "gen:H", <<"P_H">>, <<>>)
                          EXCEPT !.target = "inst gen:H"]) @@
  ("Array<T>"       :> [Declared("Interface", "Array", <<"T_Array">>, <<>>) EXCEPT !.target = "Array<T>"])

TyGen ==
  ("T_Foo"   :> TypeParam("Foo.T", "number")) @@
  ("V_Foo"   :> TypeParam("Foo.V", "Array<T_Foo>")) @@
  ("A_G"     :> TypeParam("G.A", "")) @@
  ("B_G"     :> TypeParam("G.B", "number")) @@
  ("C_G"     :> TypeParam("G.C", "Array<B_G>")) @@
  ("T_Array" :> TypeParam("Array.T", "")) @@
  ("T_K"     :> TypeParam("K.T", "")) @@
  ("P_H"     :> TypeParam("H.P", "{x:number}")) @@
  ("H<{x:string}>" :> Ref("gen:H", "inst gen:H", <<"{x:string}">>)) @@
  ("Array<number>" :> Ref("Array", "Array<T>", <<"number">>)) @@
  ("Array<string>" :> Ref("Array", "Array<T>", <<"string">>)) @@
  ("Array<T_Foo>"  :> Ref("Array", "Array<T>", <<"T_Foo">>)) @@
  ("Array<B_G>"    :> Ref("Array", "Array<T>", <<"B_G">>)) @@
  ("Array<tT>"     :> Ref("Array", "Array<T>", <<"tT">>)) @@
  ("Foo<number,number[]>" :> Ref("gen:Foo", "inst gen:Foo", <<"number", "Array<number>">>)) @@
  ("Foo<number,string>"   :> Ref("gen:Foo", "inst gen:Foo", <<"number", "string">>)) @@
  ("Foo<string,string[]>" :> Ref("gen:Foo", "inst gen:Foo", <<"string", "Array<string>", "this">>)) @@
  ("G<string,number,number[]>" :> Ref("gen:G", "inst gen:G", <<"string", "number", "Array<number>">>)) @@
  ("G<string,string,number[]>" :> Ref("gen:G", "inst gen:G", <<"string", "string", "Array<number>">>))

\* the types of shapes.ts
TyAlias ==
  ("tE1" :> [Anon("__E1", <<"E1.y">>) EXCEPT !.aliasSymbol = "E1"]) @@
  ("tP"  :> [Anon("__P", <<"P.v">>) EXCEPT !.aliasSymbol = "P", !.aliasTypeArguments = Some(<<"T_P">>)]) @@
  ("T_P" :> TypeParam("P.T", "number")) @@
  ("P<number>" :> [Anon("__P", <<"Pn.v">>) EXCEPT
                     !.aliasSymbol = "P", !.aliasTypeArguments = Some(<<"number">>)]) @@
  ("P<string>" :> [Anon("__P", <<"Ps.v">>) EXCEPT
                     !.aliasSymbol = "P", !.aliasTypeArguments = Some(<<"string">>)]) @@
  ("tQ"  :> [Anon("__Q", <<"Q.w">>) EXCEPT !.aliasSymbol = "Q"])

TyCtor ==
  ("typeof Ov" :> [Anon("Ov", <<"prototype">>) EXCEPT
                     !.constructSignatures = <<"Ov.new1", "Ov.new2", "Ov.new3">>]) @@
  ("inst Ov"   :> [Declared("Class", "Ov", <<>>, <<>>) EXCEPT !.target = "inst Ov"]) @@
  ("typeof Pv" :> [Anon("Pv", <<"prototype">>) EXCEPT !.constructSignatures = <<"Pv.new">>]) @@
  ("inst Pv"   :> [Declared("Class", "Pv", <<>>, <<>>) EXCEPT !.target = "inst Pv"])

TyHeritage ==
  ("tPt"  :> [Anon("__Pt", <<"Pt.x", "Pt.y">>) EXCEPT
                !.aliasSymbol = "Pt", !.aliasTypeArguments = Some(<<"T_Pt">>)]) @@
  ("T_Pt" :> TypeParam("Pt.T", "")) @@
  ("Pt<string>" :> [Anon("__Pt", <<"Pts.x", "Pts.y">>) EXCEPT
                      !.aliasSymbol = "Pt", !.aliasTypeArguments = Some(<<"string">>)]) @@
  ("inst Base" :> [Declared("Interface", "Base", <<>>, <<"Base.u">>) EXCEPT !.target = "inst Base"]) @@
  ("inst Mid"  :> [Declared("Interface", "Mid", <<>>, <<"Mid.m", "Base.u">>)
                     EXCEPT !.target = "inst Mid"]) @@
  ("typeof Im" :> [Anon("Im", <<"prototype">>) EXCEPT !.constructSignatures = <<"Im.new">>]) @@
  ("inst Im"   :> [Declared("Class", "Im", <<>>,
                            <<"Im.x", "Im.y", "Im.z", "Im.u", "Im.m", "Im.k", "Im.w", "Im.r">>)
                     EXCEPT !.target = "inst Im"]) @@
  ("typeof Em" :> [Anon("Em", <<"prototype">>) EXCEPT !.constructSignatures = <<"Em.new">>]) @@
  ("inst Em"   :> [Declared("Class", "Em", <<>>,
                            <<"Em.z", "Im.x", "Im.y", "Im.u", "Im.m", "Im.k", "Im.w", "Im.r">>)
                     EXCEPT !.target = "inst Em"])

TyScope ==
  ("tSh"   :> [Anon("__Sh", <<"Sh.g", "Sh.f">>) EXCEPT
                 !.aliasSymbol = "Sh", !.aliasTypeArguments = Some(<<"T_Sh">>)]) @@
  ("T_Sh"  :> TypeParam("Sh.T", "")) @@
  ("tShf"  :> [Anon("__Shf", <<>>) EXCEPT !.callSignatures = <<"Sh.f.call">>]) @@
  ("T_Shf" :> TypeParam("Sh.f.T", "")) @@
  ("U_Shf" :> TypeParam("Sh.f.U", ""))

TyKinds ==
  ("typeof CI" :> [Anon("CI", <<"prototype">>) EXCEPT !.constructSignatures = <<"CI.new">>]) @@
  ("inst CI"   :> [Declared("Class", "CI", <<>>, <<>>) EXCEPT !.target = "inst CI"])

\* types holds the object type and the index type of an indexed access
TyMapped ==
  ("tMp"  :> [T({"Object"}) EXCEPT !.symbol = "__Mp", !.objectFlags = {"Mapped"},
               !.aliasSymbol = "Mp", !.aliasTypeArguments = Some(<<"T_Mp">>)]) @@
  ("T_Mp" :> TypeParam("Mp.T", "")) @@
  ("K_Mp" :> TypeParam("Mp.K", "")) @@
  ("T_Mp[K_Mp]" :> [T({"IndexedAccess"}) EXCEPT !.types = <<"T_Mp", "K_Mp">>]) @@
  ("tR"  :> [T({"Object"}) EXCEPT !.symbol = "__R", !.objectFlags = {"Mapped"},
               !.aliasSymbol = "R"]) @@
  ("K_R" :> TypeParam("R.K", ""))

TyShp == TyAlias @@ TyCtor @@ TyHeritage @@ TyScope @@ TyKinds @@ TyMapped

TyTab == TyPrim @@ TyObj @@ TyClass @@ TyGen @@ TyShp

(***************************************************************************)
(* Call and construct signatures.  typeParameters is signature             *)
(* .typeParameters being set; declTypeParameters is the typeParameters     *)
(* list of the signature's declaration node.                               *)
(***************************************************************************)
Signature(declaration, parameters, returnType) ==
  [declaration |-> declaration, parameters |-> parameters, returnType |-> returnType,
   typeParameters |-> FALSE, declTypeParameters |-> None]

\* the construct signatures of shapes.ts: one per overload, none for the implementation
SigShp ==
  ("Ov.new1" :> Signature("Ov.c1", <<"Ov.a1">>, "inst Ov")) @@
  ("Ov.new2" :> Signature("Ov.c2", <<"Ov.a2">>, "inst Ov")) @@
  ("Ov.new3" :> Signature("Ov.c3", <<"Ov.a3", "Ov.b3">>, "inst Ov")) @@
  ("Pv.new"  :> Signature("Pv.c1", <<>>, "inst Pv")) @@
  ("Im.new"  :> Signature("Im.c1", <<"Im.pw", "Im.pr">>, "inst Im")) @@
  ("Em.new"  :> Signature("Im.c1", <<"Im.pw", "Im.pr">>, "inst Em")) @@
  ("CI.new"  :> Signature("", <<>>, "inst CI")) @@
  ("Sh.f.call" :> [Signature("", <<"Sh.f.a", "Sh.f.b">>, "T_Shf") EXCEPT
                     !.typeParameters = TRUE, !.declTypeParameters = Some(<<"Sh.f.T", "Sh.f.U">>)])

SigTab ==
  SigShp @@
  ("sigNum"      :> Signature("", <<>>, "number")) @@
  ("sub:Foo.new" :> Signature("", <<>>, "inst sub:Foo")) @@
  ("sub:Bar.new" :> Signature("", <<>>, "inst sub:Bar")) @@
  ("Vis.new"     :> Signature("Vis.ctor", <<"Vis.px", "Vis.py", "Vis.pz">>, "inst Vis")) @@
  ("Own.new"     :> Signature("Own.ctor", <<>>, "inst Own")) @@
  ("f.1"         :> Signature("", <<"f.a1">>, "string")) @@
  ("f.2"         :> Signature("", <<"f.a2", "f.b2">>, "number")) @@
  ("K.new"       :> [Signature("", <<>>, "inst gen:K") EXCEPT !.typeParameters = TRUE]) @@
  ("Foo.new"     :> [Signature("Foo.ctor", <<"Foo.pvalue", "Foo.pcontent">>, "inst gen:Foo")
                       EXCEPT !.typeParameters = TRUE])

(***************************************************************************)
(* The source files a caller may name.  "missing" is not part of the       *)
(* program; "script" has no module symbol (no exports); "far" lies in a    *)
(* directory without tsconfig.json, the others below ConfigDir.            *)
(***************************************************************************)
Unit(exports) == [found |-> TRUE, fileSymbol |-> TRUE, exports |-> exports]

UnitTab ==
  ("rec" :> Unit(<<"n", "m">>)) @@
  ("idx" :> Unit(<<"attrs", "attrs2", "nums", "docd", "a", "c", "d", "E", "e">>)) @@
  ("bad" :> Unit(<<"ok", "bad", "late">>)) @@
  ("sub" :> Unit(<<"sub:Foo", "sub:Bar">>)) @@
  ("vis" :> Unit(<<"Vis", "hiddenTop", "shown", "o", "Own">>)) @@
  ("gen" :> Unit(<<"gen:Foo", "x", "y", "z", "gen:G", "g1", "g2", "gen:H", "h1",
                   "gen:f", "gen:K">>)) @@
  ("far" :> Unit(<<"f">>)) @@
  ("cyc" :> Unit(<<"t">>)) @@
  ("script"  :> [Unit(<<>>) EXCEPT !.fileSymbol = FALSE]) @@
  ("missing" :> [Unit(<<>>) EXCEPT !.found = FALSE])

(***************************************************************************)
(* Output values.  BindingType, Binding, Param and Item are one record     *)
(* shape; a field the code leaves unset is None (FALSE for the flags).     *)
(* An object used as a map is the sequence of its entries in property      *)
(* order.                                                                  *)
(***************************************************************************)
BT(type) ==
  [type |-> type, typeSource |-> None, typeParamSource |-> None, properties |-> None,
   instanceProperties |-> None, typeArgs |-> None, typeParams |-> None, key |-> None,
   signatures |-> None, extends |-> None, construct |-> None, implements |-> None,
   kind |-> None, id |-> None, description |-> None, loc |-> None,
   abstract |-> FALSE, readonly |-> FALSE, optional |-> FALSE,
   name |-> None, rest |-> FALSE, default |-> None]

CallSignature(type) == [type |-> type, params |-> <<>>, returns |-> None, typeParams |-> None]

Keys(map) == [i \in 1..Len(map) |-> map[i].k]

HasKey(map, k) == \E i \in 1..Len(map) : map[i].k = k

Lookup(map, k) == map[CHOOSE i \in 1..Len(map) : map[i].k = k].v

\* target[name] = item: a new key is appended, an existing key keeps its place
Put(map, k, v) ==
  IF HasKey(map, k)
  THEN [i \in 1..Len(map) |-> IF map[i].k = k THEN [k |-> k, v |-> v] ELSE map[i]]
  ELSE Append(map, [k |-> k, v |-> v])

\* {...binding, ...typeDesc}
Spread(binding, typeDesc) ==
  [typeDesc EXCEPT !.kind = binding.kind, !.id = binding.id,
                   !.description = binding.description, !.loc = binding.loc,
                   !.abstract = binding.abstract, !.readonly = binding.readonly,
                   !.optional = binding.optional]

(***************************************************************************)
(* What a method evaluates to: its value v, the state st it leaves (the    *)
(* module-level recursion stack and the depth of nested getType frames)    *)
(* and the exception err it throws ("" when it returns).                   *)
(***************************************************************************)
Ret(v, st) == [v |-> v, st |-> st, err |-> ""]

Throw(st, msg) == [v |-> None, st |-> st, err |-> msg]

Failed(r) == r.err # ""

(***************************************************************************)
(* class Context                                                           *)
(***************************************************************************)
Context(tc, exports, basedir, id, typeParams) ==
  [tc |-> tc, exports |-> exports, basedir |-> basedir, id |-> id, typeParams |-> typeParams]

extend(cx, nm, sep) ==
  Context(cx.tc, cx.exports, cx.basedir, IF cx.id # "" THEN cx.id \o sep \o nm ELSE nm, cx.typeParams)

addParams(cx, typeParams) ==
  Context(cx.tc, cx.exports, cx.basedir, cx.id, typeParams \o cx.typeParams)

WellKnownNames ==
  ("__@iterator@34" :> "[symbol iterator]") @@ ("__@sym@12" :> "[unique symbol]")

symbolName(symbol) ==
  IF Sym[symbol].name \in DOMAIN WellKnownNames THEN WellKnownNames[Sym[symbol].name]
  ELSE Sym[symbol].name

maybeDecl(symbol) == Sym[symbol].declared

RECURSIVE Join(_)
Join(segs) ==
  IF segs = <<>> THEN ""
  ELSE IF Len(segs) = 1 THEN segs[1]
  ELSE segs[1] \o "/" \o Join(Tail(segs))

RECURSIVE CommonLen(_, _)
CommonLen(a, b) ==
  IF a = <<>> \/ b = <<>> \/ a[1] # b[1] THEN 0 ELSE 1 + CommonLen(Tail(a), Tail(b))

\* path.relative(from, to), as segments
relative(from, to) ==
  LET k == CommonLen(from, to)
  IN [i \in 1..(Len(from) - k) |-> ".."] \o SubSeq(to, k + 1, Len(to))

nodePath(cx, file) == relative(cx.basedir, FileTab[file].path)

\* /typescript\/lib\/.*\.es\d+.*\.d\.ts$/
isBuiltin(path) ==
  \E i \in 1..(Len(path) - 2) :
    path[i] = "typescript" /\ path[i + 1] = "lib" /\ path[Len(path)] \in EsLibNames

isExternal(cx, symbol) ==
  IF ~maybeDecl(symbol) THEN TRUE
  ELSE LET path == FileTab[Sym[symbol].file].path
           n == Len(cx.basedir)
       IN ~(IsPrefix(cx.basedir, path) /\ Len(path) > n)
          \/ "node_modules" \in Range(SubSeq(path, n + 1, Len(path)))

\* a test under which every symbol may be referenced by name
alwaysAvailable(cx, symbol) == TRUE

isAvailable(cx, symbol) == symbol \in Range(cx.exports) \/ isExternal(cx, symbol)

\* /@internal\b/.test(description)
\* a test that finds the marker in no description
NeverInternal(description) == FALSE

IsInternal(description) == IsSome(description) /\ "@internal" \in Range(Get(description))

\* addSourceData for a node at (file, pos) whose leading doc comment is doc
addSourceData(cx, file, pos, doc, target, comments) ==
  [target EXCEPT
     !.description = IF comments /\ doc # <<>> THEN Some(doc) ELSE @,
     !.loc = Some([file |-> Join(nodePath(cx, file)),
                   line |-> (pos \div 10) + 1,
                   column |-> pos % 10])]

(***************************************************************************)
(* compareSymbols and the sort of gatherSymbols.  Array.prototype.sort is  *)
(* stable: symbols that compare equal keep the order the checker           *)
(* enumerated them in.                                                     *)
(***************************************************************************)
\* a comparison by declaring file alone
compareFiles(a, b) ==
  IF ~maybeDecl(a) THEN (IF maybeDecl(b) THEN -1 ELSE 0)
  ELSE IF ~maybeDecl(b) THEN 1
  ELSE IF FileTab[Sym[a].file].rank = FileTab[Sym[b].file].rank THEN 0
  ELSE IF FileTab[Sym[a].file].rank < FileTab[Sym[b].file].rank THEN -1 ELSE 1

compareSymbols(a, b) ==
  IF ~maybeDecl(a) THEN (IF maybeDecl(b) THEN -1 ELSE 0)
  ELSE IF ~maybeDecl(b) THEN 1
  ELSE LET fa == FileTab[Sym[a].file].rank
           fb == FileTab[Sym[b].file].rank
       IN IF fa = fb THEN Sym[a].pos - Sym[b].pos ELSE IF fa < fb THEN -1 ELSE 1

RECURSIVE InsertSorted(_, _)
InsertSorted(sorted, x) ==
  IF sorted = <<>> THEN <<x>>
  ELSE IF compareSymbols(x, sorted[Len(sorted)]) < 0
       THEN Append(InsertSorted(SubSeq(sorted, 1, Len(sorted) - 1), x), sorted[Len(sorted)])
       ELSE Append(sorted, x)

\* the declarations left in the order the checker enumerates them
Unsorted(symbols) == symbols

RECURSIVE SortSymbols(_)
SortSymbols(symbols) ==
  IF symbols = <<>> THEN <<>>
  ELSE InsertSorted(SortSymbols(SubSeq(symbols, 1, Len(symbols) - 1)), symbols[Len(symbols)])

(***************************************************************************)
(* compareTypes and compareSignature.  paramMap is the args array of       *)
(* getReferenceType, indexed by the id String(i) of the i-th synthetic     *)
(* parameter.  The result is "true", "false", or "throw" for the TypeError *)
(* of reading a field of undefined.                                        *)
(***************************************************************************)
\* String(i) for a 0-based index i
String(i) == CASE i = 0 -> "0" [] i = 1 -> "1" [] i = 2 -> "2" [] i = 3 -> "3" [] OTHER -> "4"

ArrayIndex == ("0" :> 0) @@ ("1" :> 1) @@ ("2" :> 2) @@ ("3" :> 3) @@ ("4" :> 4)

\* paramMap[id]: None when the array has no such element
ParamAt(paramMap, id) ==
  IF id \in DOMAIN ArrayIndex /\ ArrayIndex[id] < Len(paramMap)
  THEN Some(paramMap[ArrayIndex[id] + 1]) ELSE None

\* while (b.typeParamSource && paramMap[b.typeParamSource]) b = paramMap[b.typeParamSource]
RECURSIVE Substitute(_, _, _)
Substitute(b, paramMap, fuel) ==
  IF fuel > 0 /\ IsSome(b.typeParamSource) /\ IsSome(ParamAt(paramMap, Get(b.typeParamSource)))
  THEN Substitute(Get(ParamAt(paramMap, Get(b.typeParamSource))), paramMap, fuel - 1)
  ELSE b

And3(x, y) == IF x = "true" THEN y ELSE x

RECURSIVE compareTypes(_, _, _)
RECURSIVE compareSignature(_, _, _)
RECURSIVE EveryType(_, _, _)
RECURSIVE EverySignature(_, _, _)
RECURSIVE EveryProperty(_, _, _, _)

\* comparisons that find every pair of types different, or every pair equal
compareTypesNever(a, b0, paramMap) == "false"

compareTypesAlways(a, b0, paramMap) == "true"

\* as.every((ta, i) => compareTypes(ta, bs[i], paramMap))
EveryType(as, bs, paramMap) ==
  IF as = <<>> THEN "true"
  ELSE And3(compareTypes(as[1], bs[1], paramMap), EveryType(Tail(as), Tail(bs), paramMap))

EverySignature(as, bs, paramMap) ==
  IF as = <<>> THEN "true"
  ELSE And3(compareSignature(as[1], bs[1], paramMap), EverySignature(Tail(as), Tail(bs), paramMap))

\* aK.every(k => b.properties[k] || compareTypes(a.properties[k], b.properties[k], paramMap))
EveryProperty(aK, aProps, bProps, paramMap) ==
  IF aK = <<>> THEN "true"
  ELSE IF HasKey(bProps, aK[1]) THEN EveryProperty(Tail(aK), aProps, bProps, paramMap)
  ELSE "throw"

compareTypes(a, b0, paramMap) ==
  LET b == Substitute(b0, paramMap, Len(paramMap) + 1)
  IN IF \/ a.type # b.type \/ a.typeSource # b.typeSource
        \/ a.typeParamSource # b.typeParamSource
        \/ IsSome(a.properties) # IsSome(b.properties)
        \/ IsSome(a.instanceProperties) \/ IsSome(b.instanceProperties)
        \/ IsSome(a.typeArgs) # IsSome(b.typeArgs)
        \/ IsSome(a.signatures) # IsSome(b.signatures)
     THEN "false"
     ELSE LET props == IF ~IsSome(a.properties) THEN "true"
                       ELSE IF Len(Get(a.properties)) # Len(Get(b.properties)) THEN "false"
                       ELSE EveryProperty(Keys(Get(a.properties)), Get(a.properties),
                                          Get(b.properties), paramMap)
              targs == IF ~IsSome(a.typeArgs) THEN "true"
                       ELSE IF Len(Get(a.typeArgs)) # Len(Get(b.typeArgs)) THEN "false"
                       ELSE EveryType(Get(a.typeArgs), Get(b.typeArgs), paramMap)
              sigs  == IF ~IsSome(a.signatures) THEN "true"
                       ELSE IF Len(Get(a.signatures)) # Len(Get(b.signatures)) THEN "false"
                       ELSE EverySignature(Get(a.signatures), Get(b.signatures), paramMap)
          IN And3(props, And3(targs, sigs))

compareSignature(a, b, paramMap) ==
  IF \/ IsSome(a.returns) # IsSome(b.returns) \/ a.type # b.type
     \/ IsSome(a.typeParams) # IsSome(b.typeParams)
  THEN "false"
  ELSE LET params == IF Len(a.params) # Len(b.params) THEN "false"
                     ELSE EveryType(a.params, b.params, paramMap)
           returns == IF ~IsSome(a.returns) THEN "true"
                      ELSE compareTypes(Get(a.returns), Get(b.returns), paramMap)
       IN And3(params, returns)

(***************************************************************************)
(* The tail of getType's union/intersection branch, on the resolved        *)
(* members args.                                                           *)
(***************************************************************************)
\* args.findIndex(a => a.type == tp), 1-based, 0 when there is none
FindIndex(args, tp) ==
  IF \E i \in 1..Len(args) : args[i].type = tp
  THEN CHOOSE i \in 1..Len(args) : args[i].type = tp /\ \A j \in 1..(i - 1) : args[j].type # tp
  ELSE 0

\* args.splice(index, 1)
Splice(args, index) == SubSeq(args, 1, index - 1) \o SubSeq(args, index + 1, Len(args))

\* If both true and false occur in the union, combine them into boolean
combineBoolean(union, args) ==
  IF union /\ (\E i \in 1..Len(args) : args[i].type = "true")
           /\ (\E i \in 1..Len(args) : args[i].type = "false")
  THEN <<BT("boolean")>> \o SelectSeq(args, LAMBDA a : a.type # "true" /\ a.type # "false")
  ELSE args

\* one round of the loop: for (let tp of ["null", "undefined"])
moveToEnd(args, tp) ==
  LET index == FindIndex(args, tp)
  IN IF index > 0 /\ index # Len(args) THEN Append(Splice(args, index), args[index]) ELSE args

\* Move null and undefined types to the end
moveNullUndefined(args) == moveToEnd(moveToEnd(args, "null"), "undefined")

unionType(union, args) ==
  [BT(IF union THEN "union" ELSE "intersection") EXCEPT
     !.typeArgs = Some(moveNullUndefined(combineBoolean(union, args)))]

(***************************************************************************)
(* The checker handle tc: prog names the program (and so the Type objects) *)
(* of one gatherMany call; rot and rev fix the order in which this checker *)
(* enumerates a symbol list (getExportsOfModule, getProperties).           *)
(***************************************************************************)
Enumerate(tc, symbols) ==
  LET r == Rotate(symbols, tc.rot) IN IF tc.rev THEN Reverse(r) ELSE r

getNonNullableType(type) == IF Ty[type].nonNullable # "" THEN Ty[type].nonNullable ELSE type

\* names of a symbol list, and the symbols of a list whose name is in names
Names(symbols) == {Sym[symbols[i]].name : i \in 1..Len(symbols)}

WithNames(symbols, names) == SelectSeq(symbols, LAMBDA p : Sym[p].name \in names)

\* Object.assign(target, source) for two output records
ObjectAssign(target, source) ==
  LET pick(t, s) == IF IsSome(s) THEN s ELSE t
  IN [target EXCEPT
        !.type = source.type,
        !.typeSource = pick(@, source.typeSource),
        !.typeParamSource = pick(@, source.typeParamSource),
        !.properties = pick(@, source.properties),
        !.instanceProperties = pick(@, source.instanceProperties),
        !.typeArgs = pick(@, source.typeArgs),
        !.typeParams = pick(@, source.typeParams),
        !.key = pick(@, source.key),
        !.signatures = pick(@, source.signatures),
        !.extends = pick(@, source.extends),
        !.construct = pick(@, source.construct),
        !.implements = pick(@, source.implements)]

\* the chain with the test of Interface moved before that of Class
KindOfInterfaceFirst(flags) ==
  IF flags \cap {"Property", "GetAccessor", "SetAccessor"} # {} THEN "property"
  ELSE IF "Method" \in flags THEN "method"
  ELSE IF "Enum" \in flags THEN "enum"
  ELSE IF "EnumMember" \in flags THEN "enummember"
  ELSE IF "Interface" \in flags THEN "interface"
  ELSE IF "Class" \in flags THEN "class"
  ELSE IF "Function" \in flags THEN "function"
  ELSE IF "TypeAlias" \in flags THEN "typealias"
  ELSE IF "Variable" \in flags THEN "variable"
  ELSE IF "TypeParameter" \in flags THEN "typeparam"
  ELSE ""

\* the first matching kind of itemForSymbol, "" when no flag matches
KindOf(flags) ==
  IF flags \cap {"Property", "GetAccessor", "SetAccessor"} # {} THEN "property"
  ELSE IF "Method" \in flags THEN "method"
  ELSE IF "Enum" \in flags THEN "enum"
  ELSE IF "EnumMember" \in flags THEN "enummember"
  ELSE IF "Class" \in flags THEN "class"
  ELSE IF "Function" \in flags THEN "function"
  ELSE IF "Interface" \in flags THEN "interface"
  ELSE IF "TypeAlias" \in flags THEN "typealias"
  ELSE IF "Variable" \in flags THEN "variable"
  ELSE IF "TypeParameter" \in flags THEN "typeparam"
  ELSE ""

ItemsWithParams == {"class", "enum", "interface", "typealias"}

symbolType(symbol) ==
  IF "Any" \in Ty[Sym[symbol].type].flags THEN Sym[symbol].declaredType ELSE Sym[symbol].type

(***************************************************************************)
(* The methods of Context that resolve symbols and types.  Each takes the  *)
(* threaded state st and returns Ret(value, state); a call made after an   *)
(* exception is never evaluated.                                           *)
(***************************************************************************)
\* the rest K of a method after a call that returned m; an exception in m ends the method
Bind(m, K(_)) == IF m.err # "" THEN m ELSE K(m)

RECURSIVE gatherSymbols(_, _, _, _, _, _, _)
RECURSIVE gatherLoop(_, _, _, _, _, _, _, _)
RECURSIVE itemForSymbol(_, _, _, _)
RECURSIVE getEnumType(_, _, _)
RECURSIVE getType(_, _, _, _)
RECURSIVE getTypeBody(_, _, _, _, _)
RECURSIVE mapGetType(_, _, _)
RECURSIVE mapUnionMember(_, _, _)
RECURSIVE unionOrIntersection(_, _, _, _)
RECURSIVE getObjectType(_, _, _, _)
RECURSIVE getObjectTypeBody(_, _, _, _)
RECURSIVE getClassType(_, _, _)
RECURSIVE heritageLoop(_, _, _, _)
RECURSIVE getReferenceType(_, _, _, _, _)
RECURSIVE dropDefaults(_, _, _, _, _)
RECURSIVE getParams(_, _, _)
RECURSIVE paramsLoop(_, _, _)
RECURSIVE getTypeParams(_, _, _)
RECURSIVE getTypeParam(_, _, _)
RECURSIVE getCallSignature(_, _, _, _, _)
RECURSIVE mapCallSignature(_, _, _, _)
RECURSIVE signatureIn(_, _, _, _, _, _)
RECURSIVE describeType(_, _, _, _, _)
RECURSIVE Invoke(_, _)

\* the body of the for loop of gatherSymbols over the sorted symbols; the
\* filter of getClassType is (name, value) => !!value.description || !parentProps.includes(name)
gatherLoop(cx, symbols, target, gathered, sep, filter, parentProps, st) ==
  IF symbols = <<>> THEN Ret([target |-> target, gathered |-> gathered], st)
  ELSE Bind(gatherLoop(cx, Front(symbols), target, gathered, sep, filter, parentProps, st),
            LAMBDA done :
       Bind(Invoke("itemForSymbol",
                   <<extend(cx, symbolName(Last(symbols)), sep), Last(symbols), "", done.st>>),
            LAMBDA item :
         IF IsSome(item.v) /\ (~filter \/ IsSome(Get(item.v).description)
                                       \/ symbolName(Last(symbols)) \notin parentProps)
         THEN Ret([target |-> Put(done.v.target, symbolName(Last(symbols)), Get(item.v)),
                   gathered |-> done.v.gathered + 1], item.st)
         ELSE Ret(done.v, item.st)))

\* value: the target map and the number of items gathered (the caller tests gathered ? target : null)
gatherSymbols(cx, symbols, target, sep, filter, parentProps, st) ==
  gatherLoop(cx, SortSymbols(symbols), target, 0, sep, filter, parentProps, st)

\* gathered ? target : null
OrNull(g) == IF g.gathered > 0 THEN Some(g.target) ELSE None

\* the binding itemForSymbol starts from: kind, id, source data and modifier flags
Binding(cx, symbol, kind) ==
  [addSourceData(cx, Sym[symbol].file, Sym[symbol].pos, Sym[symbol].doc,
                 [BT("") EXCEPT !.kind = Some(kind), !.id = Some(cx.id)], TRUE)
   EXCEPT !.abstract = "Abstract" \in Sym[symbol].mods,
          !.readonly = "Readonly" \in Sym[symbol].mods
                       \/ Sym[symbol].flags \cap {"GetAccessor", "SetAccessor"} = {"GetAccessor"},
          !.optional = "Optional" \in Sym[symbol].flags]

\* cx.addParams(params) when the declaration has type parameters
paramsCx(cx, params) == IF IsSome(params) THEN addParams(cx, Get(params)) ELSE cx

\* kind || (an alias ? "reexport" : the kind the symbol's flags give)
kindFor(symbol, kindGiven) ==
  IF kindGiven # "" THEN kindGiven
  ELSE IF "Alias" \in Sym[symbol].flags THEN "reexport"
  ELSE KindOf(Sym[symbol].flags)

\* the end of itemForSymbol: the type described in the context with params, the
\* type parameters of the declaration (None when it declares none)
describeType(cx, symbol, kind, params, st) ==
  Bind(IF kind = "enum" THEN getEnumType(paramsCx(cx, params), symbol, st)
       ELSE IF kind = "reexport"
       THEN getReferenceType(paramsCx(cx, params), Sym[symbol].aliased, None, "", st)
       ELSE Invoke("getType", <<paramsCx(cx, params),
                                IF "Optional" \in Sym[symbol].flags
                                THEN getNonNullableType(symbolType(symbol))
                                ELSE symbolType(symbol),
                                symbol, st>>), LAMBDA typeDesc :
    Ret(Some(Spread(Binding(cx, symbol, kind),
                    [typeDesc.v EXCEPT !.typeParams = IF IsSome(params) THEN params ELSE @])),
        typeDesc.st))

\* itemForSymbol once kind is known
describeSymbol(cx, symbol, kind, st) ==
  IF kind = "" THEN Throw(st, "Can not determine a kind for symbol")
  ELSE IF ~maybeDecl(symbol) THEN Throw(st, "No declaration available for symbol")
  ELSE IF "Private" \in Sym[symbol].mods \/ IsInternal(Binding(cx, symbol, kind).description)
  THEN Ret(None, st)
  ELSE IF kind \in ItemsWithParams
  THEN Bind(getTypeParams(cx, Sym[symbol].typeParameters, st), LAMBDA params :
         describeType(cx, symbol, kind, params.v, params.st))
  ELSE describeType(cx, symbol, kind, None, st)

itemForSymbol(cx, symbol, kindGiven, st) ==
  IF kindGiven = "" /\ "Alias" \in Sym[symbol].flags /\ ~isExternal(cx, Sym[symbol].aliased)
  THEN Invoke("itemForSymbol", <<cx, Sym[symbol].aliased, "", st>>)
  ELSE describeSymbol(cx, symbol, kindFor(symbol, kindGiven), st)

getEnumType(cx, symbol, st) ==
  Bind(gatherSymbols(cx, [i \in 1..Len(Sym[symbol].members) |-> Sym[symbol].members[i].symbol],
                     <<>>, ".", FALSE, {}, st), LAMBDA g :
    Ret([BT("enum") EXCEPT !.properties =
           Some([i \in 1..Len(g.v.target) |->
                   [k |-> g.v.target[i].k,
                    v |-> [g.v.target[i].v EXCEPT
                             !.type = Sym[symbol].name,
                             !.typeSource = Some(Join(nodePath(cx, Sym[symbol].file)))]]])],
        g.st))

\* types.map(type => this.getType(type))
mapGetType(cx, types, st) ==
  IF types = <<>> THEN Ret(<<>>, st)
  ELSE Bind(mapGetType(cx, Front(types), st), LAMBDA done :
       Bind(Invoke("getType", <<cx, Last(types), "", done.st>>), LAMBDA r :
         Ret(Append(done.v, r.v), r.st)))

\* types.map(type => (type.flags & TypeFlags.Void) ? {type: "undefined"} : this.getType(type))
mapUnionMember(cx, types, st) ==
  IF types = <<>> THEN Ret(<<>>, st)
  ELSE Bind(mapUnionMember(cx, Front(types), st), LAMBDA done :
       Bind(IF "Void" \in Ty[Last(types)].flags THEN Ret(BT("undefined"), done.st)
            ELSE Invoke("getType", <<cx, Last(types), "", done.st>>), LAMBDA r :
         Ret(Append(done.v, r.v), r.st)))

\* the union/intersection branch of getType once the member list types is chosen
unionOrIntersection(cx, types, union, st) ==
  Bind(mapUnionMember(cx, types, st), LAMBDA args : Ret(unionType(union, args.v), args.st))

\* the first test of getType that type passes, named by the flag it tests
typeCase(cx, type, forSymbol) ==
  IF Ty[type].aliasSymbol # "" /\ ~(forSymbol # "" /\ "TypeAlias" \in Sym[forSymbol].flags)
     /\ isAvailable(cx, Ty[type].aliasSymbol) THEN "alias"
  ELSE IF "Any" \in Ty[type].flags THEN "Any"
  ELSE IF "String" \in Ty[type].flags THEN "String"
  ELSE IF "Number" \in Ty[type].flags THEN "Number"
  ELSE IF "BigInt" \in Ty[type].flags THEN "BigInt"
  ELSE IF "ESSymbol" \in Ty[type].flags THEN "ESSymbol"
  ELSE IF "Boolean" \in Ty[type].flags THEN "Boolean"
  ELSE IF "Undefined" \in Ty[type].flags THEN "Undefined"
  ELSE IF "Null" \in Ty[type].flags THEN "Null"
  ELSE IF "BooleanLiteral" \in Ty[type].flags THEN "BooleanLiteral"
  ELSE IF "Literal" \in Ty[type].flags THEN "Literal"
  ELSE IF "Never" \in Ty[type].flags THEN "Never"
  ELSE IF Ty[type].flags \cap {"Union", "Intersection"} # {} THEN "UnionOrIntersection"
  ELSE IF "TypeParameter" \in Ty[type].flags THEN "TypeParameter"
  ELSE IF "IndexedAccess" \in Ty[type].flags THEN "IndexedAccess"
  ELSE IF "Object" \in Ty[type].flags THEN "Object"
  ELSE IF "Unknown" \in Ty[type].flags THEN "Unknown"
  ELSE IF "NonPrimitive" \in Ty[type].flags THEN "NonPrimitive"
  ELSE ""

\* one stack frame of getType: a frame beyond MaxDepth is the engine's RangeError
getType(cx, type, forSymbol, st) ==
  IF st.depth >= MaxDepth THEN Throw(st, "RangeError: Maximum call stack size exceeded")
  ELSE [getTypeBody(typeCase(cx, type, forSymbol), cx, type, forSymbol,
                    [st EXCEPT !.depth = @ + 1])
        EXCEPT !.st.depth = st.depth]

\* the member types of a union or intersection: the declared order when forSymbol
\* has a declaration with a union or intersection type node
memberTypes(type, forSymbol) ==
  IF forSymbol # "" /\ maybeDecl(forSymbol) /\ IsSome(Sym[forSymbol].typeNode)
  THEN Get(Sym[forSymbol].typeNode) ELSE Ty[type].types

\* the lookup that takes the outermost entry with the name: the index of the last match
findTypeParamOutermost(cx, name) ==
  IF \E i \in 1..Len(cx.typeParams) : cx.typeParams[i].name = Some(name)
  THEN CHOOSE i \in 1..Len(cx.typeParams) :
         /\ cx.typeParams[i].name = Some(name)
         /\ \A j \in (i + 1)..Len(cx.typeParams) : cx.typeParams[j].name # Some(name)
  ELSE 0

\* this.typeParams.find(p => p.name == name): the index of the first match, 0 for none
findTypeParam(cx, name) ==
  IF \E i \in 1..Len(cx.typeParams) : cx.typeParams[i].name = Some(name)
  THEN CHOOSE i \in 1..Len(cx.typeParams) :
         /\ cx.typeParams[i].name = Some(name)
         /\ \A j \in 1..(i - 1) : cx.typeParams[j].name # Some(name)
  ELSE 0

\* the first test of the object branch of getType that type passes
objectCase(cx, type, forSymbol) ==
  IF forSymbol # "" /\ "Class" \in Sym[forSymbol].flags THEN "class"
  ELSE IF forSymbol # "" /\ "Interface" \in Sym[forSymbol].flags THEN "interface"
  ELSE IF Ty[type].objectFlags \cap {"Reference", "Interface"} # {} /\ Ty[type].symbol # ""
          /\ isAvailable(cx, Ty[type].symbol) THEN "reference"
  ELSE IF "Reference" \in Ty[type].objectFlags /\ "Object" \in Ty[Ty[type].target].flags
          /\ "Tuple" \in Ty[Ty[type].target].objectFlags THEN "tuple"
  ELSE IF "Mapped" \in Ty[type].objectFlags THEN "mapped"
  ELSE IF Ty[type].callSignatures # <<>> THEN "function"
  ELSE IF Sym[Ty[type].symbol].flags \cap {"Class", "Enum", "ValueModule"} # {}
          /\ isAvailable(cx, Ty[type].symbol) THEN "typeof"
  ELSE "object"

\* typeArgs of the mapped branch: the type at innerType described in cx, {type: "any"}
\* when the declaration has no type node
mappedValue(cx, innerType, st) ==
  IF innerType # ""
  THEN Bind(Invoke("getType", <<cx, innerType, "", st>>), LAMBDA r : Ret(<<r.v>>, r.st))
  ELSE Ret(<<BT("any")>>, st)

\* the mapped branch with the key described in a scope of its own, and the value
\* type in the scope that holds the key only
getMappedTypeFreshScope(cx, type, st) ==
  IF maybeDecl(Ty[type].symbol) /\ Sym[Ty[type].symbol].typeParameter # ""
  THEN Bind(getTypeParam([cx EXCEPT !.typeParams = <<>>], Sym[Ty[type].symbol].typeParameter, st),
            LAMBDA typeParam :
       Bind(mappedValue([cx EXCEPT !.typeParams = <<typeParam.v>>],
                        Sym[Ty[type].symbol].innerType, typeParam.st), LAMBDA args :
         Ret([BT("mapped") EXCEPT !.typeArgs = Some(args.v), !.key = Some(typeParam.v)], args.st)))
  ELSE Bind(mappedValue(cx, IF maybeDecl(Ty[type].symbol) THEN Sym[Ty[type].symbol].innerType ELSE "",
                        st), LAMBDA args :
         Ret([BT("Object") EXCEPT !.typeArgs = Some(args.v)], args.st))

\* the mapped branch of getType: decl is the declaration of type.symbol, typeParam
\* the description of decl.typeParameter, cx the context with typeParam added
getMappedType(cx, type, st) ==
  IF maybeDecl(Ty[type].symbol) /\ Sym[Ty[type].symbol].typeParameter # ""
  THEN Bind(getTypeParam(cx, Sym[Ty[type].symbol].typeParameter, st), LAMBDA typeParam :
       Bind(mappedValue(addParams(cx, <<typeParam.v>>),
                        Sym[Ty[type].symbol].innerType, typeParam.st), LAMBDA args :
         Ret([BT("mapped") EXCEPT !.typeArgs = Some(args.v), !.key = Some(typeParam.v)], args.st)))
  ELSE Bind(mappedValue(cx, IF maybeDecl(Ty[type].symbol) THEN Sym[Ty[type].symbol].innerType ELSE "",
                        st), LAMBDA args :
         Ret([BT("Object") EXCEPT !.typeArgs = Some(args.v)], args.st))

\* the object branch of getType, at the test branch names
getObjectBranch(branch, cx, type, forSymbol, st) ==
  CASE branch = "class" -> getClassType(cx, type, st)
    [] branch = "interface" -> getObjectType(cx, type, forSymbol, st)
    [] branch = "reference" ->
         getReferenceType(cx, Ty[type].symbol, Ty[type].typeArguments, type, st)
    [] branch = "tuple" ->
         Bind(mapGetType(cx, Get(Ty[type].typeArguments), st), LAMBDA args :
           Ret([BT("tuple") EXCEPT !.typeArgs = Some(args.v)], args.st))
    [] branch = "mapped" -> getMappedType(cx, type, st)
    [] branch = "function" ->
         Bind(mapCallSignature(cx, Ty[type].callSignatures, "function", st), LAMBDA sigs :
           Ret([BT("Function") EXCEPT !.signatures = Some(sigs.v)], sigs.st))
    [] branch = "typeof" ->
         Bind(getReferenceType(cx, Ty[type].symbol, None, "", st), LAMBDA ref :
           Ret([BT("typeof") EXCEPT !.typeArgs = Some(<<ref.v>>)], ref.st))
    [] branch = "object" ->
         getObjectType(cx, type,
                  IF "Interface" \in Ty[type].objectFlags THEN Ty[type].symbol ELSE "", st)

\* the body of getType, at the test branch names
getTypeBody(branch, cx, type, forSymbol, st) ==
  CASE branch = "alias" ->
         getReferenceType(cx, Ty[type].aliasSymbol, Ty[type].aliasTypeArguments, "", st)
    [] branch = "Any" -> Ret(BT("any"), st)
    [] branch = "String" -> Ret(BT("string"), st)
    [] branch = "Number" -> Ret(BT("number"), st)
    [] branch = "BigInt" -> Ret(BT("BigInt"), st)
    [] branch = "ESSymbol" -> Ret(BT("Symbol"), st)
    [] branch = "Boolean" -> Ret(BT("boolean"), st)
    [] branch = "Undefined" -> Ret(BT("undefined"), st)
    [] branch = "Null" -> Ret(BT("null"), st)
    [] branch = "BooleanLiteral" -> Ret(BT(Ty[type].intrinsicName), st)
    [] branch = "Literal" -> Ret(BT(Ty[type].value), st)
    [] branch = "Never" -> Ret(BT("never"), st)
    [] branch = "UnionOrIntersection" ->
         unionOrIntersection(cx, memberTypes(type, forSymbol), "Union" \in Ty[type].flags, st)
    [] branch = "TypeParameter" ->
         IF findTypeParam(cx, Sym[Ty[type].symbol].name) = 0
         THEN Throw(st, "Unknown type parameter")
         ELSE Ret([BT(Sym[Ty[type].symbol].name) EXCEPT !.typeParamSource =
                     cx.typeParams[findTypeParam(cx, Sym[Ty[type].symbol].name)].id], st)
    [] branch = "IndexedAccess" ->
         Bind(mapGetType(cx, Ty[type].types, st), LAMBDA args :
           Ret([BT("indexed") EXCEPT !.typeArgs = Some(args.v)], args.st))
    [] branch = "Object" ->
         getObjectBranch(objectCase(cx, type, forSymbol), cx, type, forSymbol, st)
    [] branch = "Unknown" -> Ret(BT("unknown"), st)
    [] branch = "NonPrimitive" -> Ret(BT("object"), st)
    [] OTHER -> Throw(st, "Unsupported type")

\* call.map(c => this.getCallSignature(c, type))
mapCallSignature(cx, sigs, type, st) ==
  IF sigs = <<>> THEN Ret(<<>>, st)
  ELSE Bind(mapCallSignature(cx, Front(sigs), type, st), LAMBDA done :
       Bind(getCallSignature(cx, Last(sigs), type, FALSE, done.st), LAMBDA r :
         Ret(Append(done.v, r.v), r.st)))

\* gettingObjectTypes.pop()
Pop(stack) == SubSeq(stack, 1, Len(stack) - 1)

\* the kinds of type element that have no name
Unnamed == {"IndexSignature", "CallSignature", "ConstructSignature"}

\* intDecl && isInterfaceDeclaration(intDecl)
isInterface(interfaceSymbol) ==
  interfaceSymbol # "" /\ maybeDecl(interfaceSymbol)
  /\ Sym[interfaceSymbol].kind = "InterfaceDeclaration"

\* props after the filter on the names the interface declaration declares
ownProps(cx, type, interfaceSymbol) ==
  IF isInterface(interfaceSymbol)
  THEN WithNames(Enumerate(cx.tc, Ty[type].properties),
                 {Sym[m.symbol].name :
                    m \in {x \in Range(Sym[interfaceSymbol].members) : x.kind \notin Unnamed}})
  ELSE Enumerate(cx.tc, Ty[type].properties)

\* members: of the interface declaration, else of the type literal that declares the type
typeElements(type, interfaceSymbol) ==
  IF isInterface(interfaceSymbol) THEN Sym[interfaceSymbol].members
  ELSE IF Ty[type].symbol # "" /\ maybeDecl(Ty[type].symbol)
          /\ Sym[Ty[type].symbol].kind = "TypeLiteral"
  THEN Sym[Ty[type].symbol].members
  ELSE <<>>

\* a loop that finds no index signature among the members
noIndexSignature(members) == ""

\* for (let m of members) if (m.kind == SyntaxKind.IndexSignature) indexSym = m.symbol
lastIndexSignature(members) ==
  IF \E i \in 1..Len(members) : members[i].kind = "IndexSignature"
  THEN members[CHOOSE i \in 1..Len(members) :
                 /\ members[i].kind = "IndexSignature"
                 /\ \A j \in (i + 1)..Len(members) : members[j].kind # "IndexSignature"].symbol
  ELSE ""

\* the index type strIndex || numIndex ("" for none) and the name of its key
indexType(type) ==
  IF Ty[type].stringIndexType # "" THEN Ty[type].stringIndexType ELSE Ty[type].numberIndexType

indexName(type) == IF Ty[type].stringIndexType # "" THEN "string" ELSE "number"

\* out.implements of an interface declaration with heritage clauses
getImplements(cx, interfaceSymbol, st) ==
  IF isInterface(interfaceSymbol) /\ Sym[interfaceSymbol].heritageClauses # <<>>
  THEN Bind(mapGetType(cx, Sym[interfaceSymbol].heritageClauses[1].types, st), LAMBDA r :
         Ret(Some(r.v), r.st))
  ELSE Ret(None, st)

\* indexItem: the item of the index signature's symbol, with the index type when it is any
getIndexItem(cx, type, interfaceSymbol, st) ==
  IF indexType(type) # "" /\ lastIndexSignature(typeElements(type, interfaceSymbol)) # ""
  THEN Bind(Invoke("itemForSymbol",
                   <<extend(cx, indexName(type), "^"),
                     lastIndexSignature(typeElements(type, interfaceSymbol)), "property", st>>),
            LAMBDA item :
         IF IsSome(item.v) /\ Get(item.v).type = "any"
         THEN Bind(Invoke("getType", <<cx, indexType(type), "", item.st>>), LAMBDA r :
                Ret(Some(ObjectAssign(Get(item.v), r.v)), r.st))
         ELSE item)
  ELSE Ret(None, st)

\* a return from inside the try block before its last statement
EarlyReturn(v, st) == [v |-> v, st |-> st, err |-> "", early |-> TRUE]

Early(r) == "early" \in DOMAIN r

\* the start of the try block: out.implements and indexItem
objectHead(cx, type, interfaceSymbol, st) ==
  Bind(getImplements(cx, interfaceSymbol, st), LAMBDA impl :
  Bind(getIndexItem(cx, type, interfaceSymbol, impl.st), LAMBDA indexItem :
    Ret([implements |-> impl.v, indexItem |-> indexItem.v], indexItem.st)))

\* call.map(...).concat(ctor.map(...))
objectSignatures(cx, type, st) ==
  Bind(mapCallSignature(cx, Ty[type].callSignatures, "function", st), LAMBDA fns :
  Bind(mapCallSignature(cx, Ty[type].constructSignatures, "constructor", fns.st), LAMBDA news :
    Ret(fns.v \o news.v, news.st)))

\* the rest of the try block: signatures and properties
getMembers(cx, type, props, out, indexItem, st) ==
  Bind(objectSignatures(cx, type, st), LAMBDA sigs :
  Bind(gatherSymbols(cx, props, <<>>, ".", FALSE, {}, sigs.st), LAMBDA g :
    Ret([out EXCEPT
           !.signatures = IF Ty[type].callSignatures # <<>> \/ Ty[type].constructSignatures # <<>>
                          THEN Some(sigs.v) ELSE @,
           !.properties = IF IsSome(indexItem)
                          THEN Some(Put(IF g.v.gathered > 0 THEN g.v.target ELSE <<>>,
                                        "[" \o indexName(type) \o "]", Get(indexItem)))
                          ELSE OrNull(g.v)],
        g.st)))

\* the try block of getObjectType
getObjectTypeBody(cx, type, interfaceSymbol, st) ==
  Bind(objectHead(cx, type, interfaceSymbol, st), LAMBDA head :
    IF /\ indexType(type) # "" /\ ownProps(cx, type, interfaceSymbol) = <<>>
       /\ Ty[type].callSignatures = <<>> /\ Ty[type].constructSignatures = <<>>
       /\ ~IsSome(head.v.implements)
       /\ ~(IsSome(head.v.indexItem) /\ IsSome(Get(head.v.indexItem).description))
    THEN Bind(Invoke("getType", <<cx, indexType(type), "", head.st>>), LAMBDA r :
           EarlyReturn([BT(IF Ty[type].stringIndexType # "" THEN "Object" ELSE "Array") EXCEPT
                          !.typeArgs = Some(<<r.v>>)], r.st))
    ELSE getMembers(cx, type, ownProps(cx, type, interfaceSymbol),
                    [BT(IF interfaceSymbol # "" THEN "interface" ELSE "Object") EXCEPT
                       !.implements = head.v.implements],
                    head.v.indexItem, head.st))

\* finally { gettingObjectTypes.pop() }: the pop on every way out of the try block r
Finally(r) == [v |-> r.v, st |-> [r.st EXCEPT !.stack = Pop(@)], err |-> r.err]

\* the pop as the last statement of the function: reached only when the block r
\* ran to its end
PopAtEnd(r) ==
  IF Failed(r) \/ Early(r) THEN [v |-> r.v, st |-> r.st, err |-> r.err] ELSE Finally(r)

\* src/src/index.ts:261 (the earlier revision): the pop is the last statement
\* of the function, so a return from the index-signature test or an exception skips it
getObjectTypeNoFinally(cx, type, interfaceSymbol, st) ==
  IF <<cx.tc.prog, type>> \in Range(st.stack) THEN Ret(BT("Object"), st)
  ELSE PopAtEnd(getObjectTypeBody(cx, type, interfaceSymbol,
                                  [st EXCEPT !.stack = Append(@, <<cx.tc.prog, type>>)]))

\* the re-entry answered with an item that is not the bare placeholder
getObjectTypeFilledPlaceholder(cx, type, interfaceSymbol, st) ==
  IF <<cx.tc.prog, type>> \in Range(st.stack)
  THEN Ret([BT("Object") EXCEPT !.properties = Some(<<>>)], st)
  ELSE Finally(getObjectTypeBody(cx, type, interfaceSymbol,
                                 [st EXCEPT !.stack = Append(@, <<cx.tc.prog, type>>)]))

getObjectType(cx, type, interfaceSymbol, st) ==
  IF <<cx.tc.prog, type>> \in Range(st.stack) THEN Ret(BT("Object"), st)
  ELSE Finally(getObjectTypeBody(cx, type, interfaceSymbol,
                                 [st EXCEPT !.stack = Append(@, <<cx.tc.prog, type>>)]))

\* the loop over classDecl.heritageClauses: value [out, parentProps]
heritageLoop(cx, clauses, acc, st) ==
  IF clauses = <<>> THEN Ret(acc, st)
  ELSE Bind(heritageLoop(cx, Front(clauses), acc, st), LAMBDA done :
       Bind(mapGetType(cx, Last(clauses).types, done.st), LAMBDA parents :
         Ret([out |-> IF Last(clauses).token = "ExtendsKeyword"
                      THEN [done.v.out EXCEPT !.extends = Some(parents.v[1])]
                      ELSE [done.v.out EXCEPT !.implements = Some(parents.v)],
              parentProps |-> done.v.parentProps \cup
                              UNION {Names(Ty[Last(clauses).types[i]].properties) :
                                       i \in 1..Len(Last(clauses).types)}],
             parents.st)))

\* ctors, definedProps and definedStatic as the loop over classDecl.members leaves them
ctorsOf(classDecl) == SelectSeq(classDecl.members, LAMBDA m : m.kind = "Constructor")

definedProps(classDecl) ==
  UNION {{Sym[c.parameters[j].symbol].name :
            j \in {k \in 1..Len(c.parameters) :
                     c.parameters[k].mods \cap {"Public", "Readonly"} # {}}} :
         c \in Range(ctorsOf(classDecl))}
  \cup {Sym[m.symbol].name :
          m \in {x \in Range(classDecl.members) : x.kind # "Constructor" /\ "Static" \notin x.mods}}

definedStatic(classDecl) ==
  {Sym[m.symbol].name :
     m \in {x \in Range(classDecl.members) : x.kind # "Constructor" /\ "Static" \in x.mods}}

\* a constructor the loop over ctors does not skip
CtorTaken(type, ctor) ==
  /\ \E i \in 1..Len(Ty[type].constructSignatures) :
        Sig[Ty[type].constructSignatures[i]].declaration = ctor.id
  /\ "Private" \notin ctor.mods
  /\ ~IsInternal(IF ctor.doc # <<>> THEN Some(ctor.doc) ELSE None)

\* the index in ctors of the constructor the loop stops at, 0 when it skips them all
firstCtor(type, ctors) ==
  IF \E i \in 1..Len(ctors) : CtorTaken(type, ctors[i])
  THEN CHOOSE i \in 1..Len(ctors) :
         CtorTaken(type, ctors[i]) /\ \A j \in 1..(i - 1) : ~CtorTaken(type, ctors[j])
  ELSE 0

\* ctorItem with its signature, for the constructor declaration ctor
getConstruct(cx, type, classDecl, ctor, st) ==
  Bind(getCallSignature(extend(cx, "constructor", "."),
                CHOOSE sg \in Range(Ty[type].constructSignatures) : Sig[sg].declaration = ctor.id,
                "constructor", TRUE, st), LAMBDA sg :
    Ret(Some([addSourceData(cx, classDecl.file, ctor.pos, ctor.doc,
                            [BT("Function") EXCEPT !.kind = Some("constructor"),
                                                   !.id = Some(cx.id \o ".constructor")], TRUE)
              EXCEPT !.signatures = Some(<<sg.v>>)]),
        sg.st))

\* the declared properties of the instance type gathered without the filter
getInstancePropertiesUnfiltered(cx, type, classDecl, parentProps, st) ==
  IF Ty[type].constructSignatures = <<>> THEN Ret(None, st)
  ELSE Bind(gatherSymbols(cx,
                     WithNames(Enumerate(cx.tc,
                                 Ty[Sig[Ty[type].constructSignatures[1]].returnType].properties),
                               definedProps(classDecl)),
                     <<>>, ".", FALSE, parentProps, st), LAMBDA g :
         Ret(OrNull(g.v), g.st))

\* out.instanceProperties: the declared properties of the instance type, filtered
getInstanceProperties(cx, type, classDecl, parentProps, st) ==
  IF Ty[type].constructSignatures = <<>> THEN Ret(None, st)
  ELSE Bind(gatherSymbols(cx,
                     WithNames(Enumerate(cx.tc,
                                 Ty[Sig[Ty[type].constructSignatures[1]].returnType].properties),
                               definedProps(classDecl)),
                     <<>>, ".", TRUE, parentProps, st), LAMBDA g :
         Ret(OrNull(g.v), g.st))

\* let classDecl = decl(type.symbol)
classDecl(type) == Sym[Ty[type].symbol]

getClassType(cx, type, st) ==
  IF ~maybeDecl(Ty[type].symbol)
     \/ Sym[Ty[type].symbol].kind \notin {"ClassDeclaration", "ClassExpression"}
  THEN Throw(st, "Class decl isn't class-like")
  ELSE
    Bind(heritageLoop(cx, classDecl(type).heritageClauses,
                      [out |-> BT("class"), parentProps |-> {}], st), LAMBDA h :
    Bind(IF firstCtor(type, ctorsOf(classDecl(type))) = 0 THEN Ret(None, h.st)
         ELSE getConstruct(cx, type, classDecl(type),
                           ctorsOf(classDecl(type))[firstCtor(type, ctorsOf(classDecl(type)))],
                           h.st), LAMBDA construct :
    Bind(getInstanceProperties(cx, type, classDecl(type), h.v.parentProps, construct.st),
         LAMBDA inst :
    Bind(gatherSymbols(cx, WithNames(Enumerate(cx.tc, Ty[type].properties),
                                     definedStatic(classDecl(type))),
                       <<>>, "^", FALSE, {}, inst.st), LAMBDA g :
      Ret([h.v.out EXCEPT !.construct = construct.v,
                          !.instanceProperties = inst.v,
                          !.properties = OrNull(g.v)],
          g.st)))))

\* args.map((a, i) => Object.assign({name: targetParams[i].symbol.name, id: String(i), kind: "typeparam"}, a))
asParams(targetParams, args) ==
  [j \in 1..Len(args) |->
     [args[j] EXCEPT !.name = IF IsSome(@) THEN @ ELSE Some(Sym[Ty[targetParams[j]].symbol].name),
                     !.id = IF IsSome(@) THEN @ ELSE Some(String(j - 1)),
                     !.kind = IF IsSome(@) THEN @ ELSE Some("typeparam")]]

\* the loop for (let i = targetParams.length - 1; i >= 0; i--), at 0-based index i;
\* cx2 is the context the first round builds from the arguments before any is dropped
dropDefaults(cx2, targetParams, i, args, st) ==
  IF i < 0 \/ Ty[targetParams[i + 1]].default = "" THEN Ret(args, st)
  ELSE Bind(Invoke("getType", <<cx2, Ty[targetParams[i + 1]].default, "", st>>), LAMBDA compare :
         IF i + 1 > Len(args) THEN Throw(compare.st, "TypeError")
         ELSE IF compareTypes(args[i + 1], compare.v, args) = "throw"
         THEN Throw(compare.st, "TypeError")
         ELSE IF compareTypes(args[i + 1], compare.v, args) = "true"
         THEN dropDefaults(cx2, targetParams, i - 1, Front(args), compare.st)
         ELSE Ret(args, compare.st))

\* typeArgs after typeArgs.slice(0, targetParams ? targetParams.length : 0) when arityType is given
sliceArgs(typeArgs, arityType) ==
  IF arityType = "" THEN typeArgs
  ELSE IF IsSome(Ty[Ty[arityType].target].typeParameters)
  THEN SubSeq(typeArgs, 1, Min(Len(Get(Ty[Ty[arityType].target].typeParameters)), Len(typeArgs)))
  ELSE <<>>

\* result as the declaration of getReferenceType initialises it: name and typeSource
reference(cx, symbol) ==
  [BT(Sym[symbol].name) EXCEPT
     !.typeSource = IF isBuiltin(nodePath(cx, Sym[symbol].file)) THEN None
                    ELSE Some(Join(nodePath(cx, Sym[symbol].file)))]

\* (arityType as TypeReference).target.typeParameters
targetParamsOf(arityType) == Get(Ty[Ty[arityType].target].typeParameters)

getReferenceType(cx, symbol, typeArgs, arityType, st) ==
  IF ~maybeDecl(symbol) THEN Throw(st, "No declaration available for symbol")
  ELSE IF ~IsSome(typeArgs) THEN Ret(reference(cx, symbol), st)
  ELSE IF arityType # "" /\ Ty[arityType].target = "" THEN Throw(st, "TypeError")
  ELSE IF sliceArgs(Get(typeArgs), arityType) = <<>> THEN Ret(reference(cx, symbol), st)
  ELSE
    Bind(mapGetType(cx, sliceArgs(Get(typeArgs), arityType), st), LAMBDA args :
    Bind(IF arityType # "" /\ IsSome(Ty[Ty[arityType].target].typeParameters)
         THEN dropDefaults(addParams(cx, asParams(targetParamsOf(arityType), args.v)),
                           targetParamsOf(arityType),
                           Len(targetParamsOf(arityType)) - 1, args.v, args.st)
         ELSE args, LAMBDA kept :
      Ret(IF kept.v # <<>> THEN [reference(cx, symbol) EXCEPT !.typeArgs = Some(kept.v)]
          ELSE reference(cx, symbol),
          kept.st)))

\* the Param of the parameter declaration p whose type getType described as type
describeParam(cx, p, type) ==
  [addSourceData(cx, p.file, p.pos, p.doc,
                 [type EXCEPT !.id = Some(extend(cx, p.name, "^").id), !.kind = Some("parameter")],
                 p.mods \cap {"Public", "Readonly"} = {})
   EXCEPT !.default = IF p.initializer # "" THEN Some(p.initializer) ELSE @,
          !.optional = p.initializer # "" \/ p.questionToken,
          !.rest = p.dotDotDotToken,
          !.name = IF p.identifier THEN Some(p.name) ELSE @]

\* signature.getParameters().map(param => ...)
paramsLoop(cx, params, st) ==
  IF params = <<>> THEN Ret(<<>>, st)
  ELSE
    Bind(paramsLoop(cx, Front(params), st), LAMBDA done :
    IF ~maybeDecl(Last(params)) THEN Throw(done.st, "No declaration available for symbol")
    ELSE
    Bind(Invoke("getType",
                <<extend(cx, Sym[Last(params)].name, "^"),
                  IF Sym[Last(params)].questionToken
                  THEN getNonNullableType(symbolType(Last(params)))
                  ELSE symbolType(Last(params)),
                  Last(params), done.st>>), LAMBDA r :
      Ret(Append(done.v, describeParam(cx, Sym[Last(params)], r.v)), r.st)))

getParams(cx, signature, st) == paramsLoop(cx, Sig[signature].parameters, st)

\* params.map of getTypeParams: each parameter is described in the context that
\* cx.addParams([result]) has extended once per earlier parameter (the latest first)
RECURSIVE typeParamsLoop(_, _, _)
typeParamsLoop(cx, params, st) ==
  IF params = <<>> THEN Ret(<<>>, st)
  ELSE Bind(typeParamsLoop(cx, Front(params), st), LAMBDA done :
       Bind(getTypeParam(addParams(cx, Reverse(done.v)), Last(params), done.st),
            LAMBDA p :
         Ret(Append(done.v, p.v), p.st)))

\* typeParameters: the typeParameters list of the declaration node (None when it has none)
getTypeParams(cx, typeParameters, st) ==
  IF ~IsSome(typeParameters) THEN Ret(None, st)
  ELSE Bind(typeParamsLoop(cx, Get(typeParameters), st), LAMBDA r : Ret(Some(r.v), r.st))

\* result.implements of a type parameter: the constraint, a keyof constraint by its operand
getConstraint(cx, localCx, sym, st) ==
  IF sym.constraint = "" THEN Ret(None, st)
  ELSE IF sym.keyofConstraint
  THEN Bind(Invoke("getType", <<cx, sym.constraint, "", st>>), LAMBDA r :
         Ret(Some(<<[BT("keyof") EXCEPT !.typeArgs = Some(<<r.v>>)]>>), r.st))
  ELSE Bind(Invoke("getType", <<localCx, sym.constraint, "", st>>), LAMBDA r :
         Ret(Some(<<r.v>>), r.st))

getTypeParam(cx, param, st) ==
  Bind(getConstraint(cx, extend(cx, Sym[param].name, "^"), Sym[param], st), LAMBDA impl :
    Ret([addSourceData(cx, Sym[param].file, Sym[param].pos, Sym[param].doc,
                       [BT("typeparam") EXCEPT
                          !.kind = Some("typeparam"),
                          !.name = Some(Sym[param].name),
                          !.id = Some(extend(cx, Sym[param].name, "^").id)], TRUE)
         EXCEPT !.implements = impl.v,
                !.default = IF Sym[param].initializer # "" THEN Some(Sym[param].initializer)
                            ELSE @],
        impl.st))

\* getCallSignature in the context with typeParams, the type parameters of the
\* signature (None when it declares none)
signatureIn(cx, signature, type, suppressReturn, typeParams, st) ==
  Bind(getParams(paramsCx(cx, typeParams), signature, st), LAMBDA params :
  Bind(IF suppressReturn \/ "Void" \in Ty[Sig[signature].returnType].flags
       THEN Ret(None, params.st)
       ELSE Bind(Invoke("getType", <<extend(paramsCx(cx, typeParams), "returns", "^"),
                                     Sig[signature].returnType, "", params.st>>), LAMBDA ret :
              Ret(Some(ret.v), ret.st)), LAMBDA returns :
    Ret([CallSignature(type) EXCEPT !.typeParams = typeParams, !.params = params.v,
                                    !.returns = returns.v],
        returns.st)))

getCallSignature(cx, signature, type, suppressReturn, st) ==
  IF Sig[signature].typeParameters
  THEN Bind(getTypeParams(cx, Sig[signature].declTypeParameters, st), LAMBDA typeParams :
         signatureIn(cx, signature, type, suppressReturn, typeParams.v, typeParams.st))
  ELSE signatureIn(cx, signature, type, suppressReturn, None, st)

(***************************************************************************)
(* The calls of this.getType(...) and this.itemForSymbol(...), the two     *)
(* methods every recursion of Context passes through, are                  *)
(* Invoke("method", <<receiver, arguments, state>>).                       *)
(***************************************************************************)
Invoke(method, a) ==
  CASE method = "itemForSymbol" -> itemForSymbol(a[1], a[2], a[3], a[4])
    [] method = "getType"       -> getType(a[1], a[2], a[3], a[4])

(***************************************************************************)
(* gatherMany and gather.                                                  *)
(***************************************************************************)
\* the loop that adds all symbols aliased by exports to closedExports, from index i
RECURSIVE closeExports(_, _)
closeExports(closedExports, i) ==
  IF i > Len(closedExports) THEN closedExports
  ELSE LET sym == closedExports[i]
           alias == IF "Alias" \in Sym[sym].flags THEN Sym[sym].aliased ELSE ""
       IN closeExports(IF alias # "" /\ alias \notin Range(closedExports)
                       THEN Append(closedExports, alias) ELSE closedExports, i + 1)

\* tc.getExportsOfModule(fileSymbol)
exportsOf(tc, filename) == Enumerate(tc, UnitTab[filename].exports)

\* resolve(basedir || dirname(configPath || filename))
baseOf(configPath, spec) ==
  IF IsSome(spec.basedir) THEN Get(spec.basedir)
  ELSE IF IsSome(configPath) THEN Get(configPath)
  ELSE Front(FileTab[spec.filename].path)

\* the callback without the test of program.getSourceFile(filename)
gatherUnitUnchecked(tc, configPath, spec, st) ==
  IF ~UnitTab[spec.filename].fileSymbol THEN Throw(st, "No symbol for file (no exports?)")
  ELSE Bind(gatherSymbols(Context(tc, closeExports(exportsOf(tc, spec.filename), 1),
                                  baseOf(configPath, spec), "", <<>>),
                          exportsOf(tc, spec.filename), <<>>, "", FALSE, {}, st), LAMBDA g :
         Ret(g.v.target, g.st))

\* the callback of specs.map in gatherMany for one spec [filename, basedir]
gatherUnit(tc, configPath, spec, st) ==
  IF ~UnitTab[spec.filename].found THEN Throw(st, "Source file not found")
  ELSE IF ~UnitTab[spec.filename].fileSymbol THEN Throw(st, "No symbol for file (no exports?)")
  ELSE Bind(gatherSymbols(Context(tc, closeExports(exportsOf(tc, spec.filename), 1),
                                  baseOf(configPath, spec), "", <<>>),
                          exportsOf(tc, spec.filename), <<>>, "", FALSE, {}, st), LAMBDA g :
         Ret(g.v.target, g.st))

\* specs.map taking the specs from the last to the first
RECURSIVE mapGatherUnitBackwards(_, _, _, _)
mapGatherUnitBackwards(tc, configPath, specs, st) ==
  IF specs = <<>> THEN Ret(<<>>, st)
  ELSE Bind(mapGatherUnitBackwards(tc, configPath, Tail(specs), st), LAMBDA done :
       Bind(gatherUnit(tc, configPath, Head(specs), done.st), LAMBDA r :
         Ret(Append(done.v, r.v), r.st)))

RECURSIVE mapGatherUnit(_, _, _, _)
mapGatherUnit(tc, configPath, specs, st) ==
  IF specs = <<>> THEN Ret(<<>>, st)
  ELSE Bind(mapGatherUnit(tc, configPath, Front(specs), st), LAMBDA done :
       Bind(gatherUnit(tc, configPath, Last(specs), done.st), LAMBDA r :
         Ret(Append(done.v, r.v), r.st)))

\* gatherMany(specs) with the checker tc of the program it creates, entered
\* with the module-level array holding stack
gatherMany(tc, specs, stack) ==
  mapGatherUnit(tc, findConfigFile(FileTab[specs[1].filename].path), specs,
                [stack |-> stack, depth |-> 0])

(***************************************************************************)
(* The process: the module-level array gettingObjectTypes, the calls made  *)
(* so far and what each returned.  input and output hold the argument and  *)
(* the result of a method applied on its own.                              *)
(***************************************************************************)
VARIABLES gettingObjectTypes, calls, log, input, output

project == <<Sym, Ty, Sig>>

vars == <<project, gettingObjectTypes, calls, log, input, output>>

NoInput ==
  [kind |-> "", types |-> <<>>, union |-> FALSE, symbol |-> "", arityType |-> "", lines |-> <<>>,
   basedir |-> <<>>, rot |-> 0, rev |-> FALSE]

NoOutput == [done |-> FALSE, err |-> "", value |-> None]

\* the source files a caller names, the base directories it passes, the units it batches
Units == DOMAIN UnitTab

BasedUnits == {"idx"}

GatherSpecs ==
  {[filename |-> f, basedir |-> None] : f \in Units}
    \cup {[filename |-> f, basedir |-> Some(<<"proj", "src">>)] : f \in BasedUnits}

BatchUnits == {"rec", "far", "missing"}

RECURSIVE SeqsUpTo(_, _)
SeqsUpTo(set, n) ==
  IF n = 0 THEN {<<>>}
  ELSE LET shorter == SeqsUpTo(set, n - 1)
       IN shorter \cup {Append(q, x) : q \in {r \in shorter : Len(r) = n - 1}, x \in set}

\* a batch names each of its files once
Batches == {[i \in 1..Len(q) |-> [filename |-> q[i], basedir |-> None]] :
              q \in {b \in SeqsUpTo(BatchUnits, MaxBatch) :
                       b # <<>> /\ \A i, j \in 1..Len(b) : b[i] = b[j] => i = j}}

Init ==
  /\ Sym = SymTab /\ Ty = TyTab /\ Sig = SigTab
  /\ gettingObjectTypes = <<>>
  /\ calls = 0
  /\ log = {}
  /\ input = NoInput
  /\ output = NoOutput

\* one call of gatherMany(specs): createProgram gives a new program and checker
Call(specs, rot, rev) ==
  /\ \E r \in {gatherMany([prog |-> calls + 1, rot |-> rot, rev |-> rev], specs,
                           gettingObjectTypes)} :
       /\ gettingObjectTypes' = r.st.stack
       /\ log' = log \cup {[specs |-> specs, err |-> r.err,
                            result |-> IF Failed(r) THEN <<>> ELSE r.v]}
  /\ calls' = calls + 1
  /\ UNCHANGED <<project, input, output>>

\* gather(spec) == gatherMany([spec])[0]
Gather ==
  /\ calls < MaxCalls
  /\ \E spec \in GatherSpecs, rot \in 0..MaxRot, rev \in BOOLEAN : Call(<<spec>>, rot, rev)

GatherMany ==
  /\ calls < MaxCalls
  /\ \E specs \in Batches, rot \in 0..MaxRot, rev \in BOOLEAN : Call(specs, rot, rev)

Next == Gather \/ GatherMany

Spec == Init /\ [][Next]_vars

(***************************************************************************)
(* The methods applied on their own.  The union/intersection branch of     *)
(* getType is applied to every member list of up to MaxMembers members;    *)
(* getReferenceType is applied to every instantiation of a generic         *)
(* declaration of unit "gen" with arguments drawn from ElideArgs, in a     *)
(* project that holds that instantiation as the type "ref".                *)
(***************************************************************************)
\* a context as gatherMany creates it, for a unit with these exports
UnitCx(exports) == Context([prog |-> 1, rot |-> 0, rev |-> FALSE], exports, ConfigDir, "", <<>>)

\* the state a call of gatherMany starts from when no call is in progress
EntryState == [stack |-> <<>>, depth |-> 0]

\* output once the method applied evaluated to r
Outcome(r) == [done |-> TRUE, err |-> r.err, value |-> IF Failed(r) THEN None ELSE Some(r.v)]

UnionMembers == {"true", "false", "boolean", "null", "undefined", "void", "string"}

UnionInputs ==
  {[NoInput EXCEPT !.kind = "union", !.types = q, !.union = u] :
     q \in {m \in SeqsUpTo(UnionMembers, MaxMembers) : Len(m) >= 2}, u \in BOOLEAN}

InitUnion ==
  /\ Sym = SymTab /\ Ty = TyTab /\ Sig = SigTab
  /\ gettingObjectTypes = <<>>
  /\ calls = 0
  /\ log = {}
  /\ input \in UnionInputs
  /\ output = NoOutput

\* getType on a union or intersection type whose member list is input.types
GetUnionType ==
  /\ input.kind = "union" /\ ~output.done
  /\ output' = Outcome(unionOrIntersection(UnitCx(<<>>), input.types, input.union, EntryState))
  /\ UNCHANGED <<project, gettingObjectTypes, calls, log, input>>

NextUnion == GetUnionType

SpecUnion == InitUnion /\ [][NextUnion]_vars

ElideTargets == {"gen:Foo", "gen:G", "gen:H"}

ElideArgs ==
  {"number", "string", "Array<number>", "Array<string>", "{x:number}", "{x:string}", "{y:number}"}

\* the declared type of a generic declaration, and its type parameters
TargetOf(symbol) == "inst " \o symbol

ParamsOf(symbol) == Get(TyTab[TargetOf(symbol)].typeParameters)

\* a reference to a class carries the this-type after its type arguments
ThisArg(symbol) == IF "Class" \in TyTab[TargetOf(symbol)].objectFlags THEN <<"this">> ELSE <<>>

ElideInputs ==
  UNION {{[NoInput EXCEPT !.kind = "reference", !.symbol = s, !.types = q, !.arityType = "ref"] :
            q \in {a \in SeqsUpTo(ElideArgs, Len(ParamsOf(s))) : Len(a) = Len(ParamsOf(s))}} :
         s \in ElideTargets}

InitElide ==
  /\ input \in ElideInputs
  /\ Sym = SymTab /\ Sig = SigTab
  /\ Ty = ("ref" :> Ref(input.symbol, TargetOf(input.symbol), input.types \o ThisArg(input.symbol)))
          @@ TyTab
  /\ gettingObjectTypes = <<>>
  /\ calls = 0
  /\ log = {}
  /\ output = NoOutput

\* getReferenceType(type.symbol, type.typeArguments, type) for the type "ref"
GetReference ==
  /\ input.kind = "reference" /\ ~output.done
  /\ output' = Outcome(getReferenceType(UnitCx(<<input.symbol>>), Ty[input.arityType].symbol,
                                         Ty[input.arityType].typeArguments, input.arityType,
                                         EntryState))
  /\ UNCHANGED <<project, gettingObjectTypes, calls, log, input>>

NextElide == GetReference

SpecElide == InitElide /\ [][NextElide]_vars

(***************************************************************************)
(* stripComment on its own.  A line is the sequence of its characters: a   *)
(* space stands for the white space, "a" for every character that is       *)
(* neither white space nor an asterisk.  A text is the sequence of the     *)
(* lines that lines.join("\n") joins; the empty sequence is the empty      *)
(* string.                                                                 *)
(***************************************************************************)
MaxLineLen == 3

MaxLines == 2

Chars == {" ", "*", "a"}

WhiteSpace == {" "}

\* the number of characters at the start of line that are in set
RECURSIVE LeadLen(_, _)
LeadLen(line, set) ==
  IF line = <<>> \/ Head(line) \notin set THEN 0 ELSE 1 + LeadLen(Tail(line), set)

\* string.slice(from) and string.slice(0, to), for 0 <= from and 0 <= to
SliceFrom(line, from) == SubSeq(line, from + 1, Len(line))

SliceTo(line, to) == SubSeq(line, 1, Min(to, Len(line)))

\* line.match(/^[\s\*]*/)[0]
LineHead(line) == SliceTo(line, LeadLen(line, WhiteSpace \cup {"*"}))

\* line.replace(/\s+$/, "")
TrimEnd(line) == SliceTo(line, Len(line) - LeadLen(Reverse(line), WhiteSpace))

\* head after the first loop of stripComment has seen lines[1] .. lines[i - 1]
\* (0-based), None for null
RECURSIVE CommonHead(_, _)
CommonHead(lines, i) ==
  IF i < 2 THEN None
  ELSE LET head == CommonHead(lines, i - 1)
       IN IF LineHead(lines[i]) = lines[i] THEN head
          ELSE IF head = None THEN Some(LineHead(lines[i]))
          ELSE Some(SliceTo(Get(head), CommonLen(Get(head), LineHead(lines[i]))))

\* head cut by the white space it ends in beyond the indentation of the first line
CutHead(lines, head) ==
  IF head = None THEN None
  ELSE LET extra == LeadLen(Reverse(Get(head)), WhiteSpace) - LeadLen(lines[1], WhiteSpace)
       IN IF extra > 0 THEN Some(SliceTo(Get(head), Len(Get(head)) - extra)) ELSE head

\* the first line with head: the loop over j, from j on
RECURSIVE FirstLine(_, _, _)
FirstLine(line, head, j) ==
  IF j >= Len(head) THEN SliceFrom(line, Len(LineHead(line)))
  ELSE IF IsPrefix(SliceFrom(head, j), line) THEN SliceFrom(line, Len(head) - j)
  ELSE FirstLine(line, head, j + 1)

\* lines[i] after the second loop (i 1-based)
StripLine(lines, head, i) ==
  IF i = 1 /\ head # None THEN FirstLine(TrimEnd(lines[i]), Get(head), 0)
  ELSE IF head = None \/ i = 1 THEN SliceFrom(TrimEnd(lines[i]), Len(LineHead(TrimEnd(lines[i]))))
  ELSE IF Len(TrimEnd(lines[i])) < Len(Get(head)) THEN <<>>
  ELSE SliceFrom(TrimEnd(lines[i]), Len(Get(head)))

\* while (lines.length && !lines[lines.length - 1]) lines.pop()
RECURSIVE PopEmpty(_)
PopEmpty(lines) ==
  IF lines # <<>> /\ Last(lines) = <<>> THEN PopEmpty(Front(lines)) ELSE lines

\* while (lines.length && !lines[0]) lines.shift()
RECURSIVE ShiftEmpty(_)
ShiftEmpty(lines) ==
  IF lines # <<>> /\ Head(lines) = <<>> THEN ShiftEmpty(Tail(lines)) ELSE lines

stripComment(lines) ==
  ShiftEmpty(PopEmpty([i \in 1..Len(lines) |->
                         StripLine(lines, CutHead(lines, CommonHead(lines, Len(lines))), i)]))

\* text.split("\n")
SplitLines(text) == IF text = <<>> THEN << <<>> >> ELSE text

\* the comment lines getComments collects from the /// comments before a declaration
CommentLines == SeqsUpTo(SeqsUpTo(Chars, MaxLineLen), MaxLines)

InitStrip ==
  /\ Sym = SymTab /\ Ty = TyTab /\ Sig = SigTab
  /\ gettingObjectTypes = <<>>
  /\ calls = 0
  /\ log = {}
  /\ input \in {[NoInput EXCEPT !.kind = "comment", !.lines = l] : l \in CommentLines}
  /\ output = NoOutput

\* getComments returns stripComment(lines); addSourceData sets description when
\* the text is not empty
StripComment ==
  /\ input.kind = "comment" /\ ~output.done
  /\ output' = [done |-> TRUE, err |-> "",
                value |-> IF stripComment(input.lines) = <<>> THEN None
                          ELSE Some(stripComment(input.lines))]
  /\ UNCHANGED <<project, gettingObjectTypes, calls, log, input>>

\* stripComment applied to the lines of the text it returned
StripAgain ==
  /\ input.kind = "comment" /\ output.done /\ log = {}
  /\ log' = {stripComment(SplitLines(stripComment(input.lines)))}
  /\ UNCHANGED <<project, gettingObjectTypes, calls, input, output>>

NextStrip == StripComment \/ StripAgain

SpecStrip == InitStrip /\ [][NextStrip]_vars

(***************************************************************************)
(* itemForSymbol on its own: one symbol of shapes.ts is described as       *)
(* gatherSymbols describes an export of the unit, under either base        *)
(* directory and every enumeration order of the checker.                   *)
(***************************************************************************)
\* the exports of shapes.ts
ShapeExports ==
  <<"E1", "E2", "e1", "P", "p1", "p2", "q", "Ov", "Pv", "Pt", "Base", "Mid", "Im", "Em",
    "Sh", "esc", "rf", "rh", "rd", "re", "CI", "VT", "N", "Mp", "R">>

\* the symbols described
ShapeSymbols == Range(ShapeExports)

ShapeDirs == {ConfigDir, <<"proj", "src">>}

ItemInputs ==
  {[NoInput EXCEPT !.kind = "item", !.symbol = s, !.basedir = d, !.rot = rot, !.rev = rev] :
     s \in ShapeSymbols, d \in ShapeDirs, rot \in 0..MaxRot, rev \in BOOLEAN}

InitItem ==
  /\ Sym = SymTab /\ Ty = TyTab /\ Sig = SigTab
  /\ gettingObjectTypes = <<>>
  /\ calls = 0
  /\ log = {}
  /\ input \in ItemInputs
  /\ output = NoOutput

\* the context gatherMany creates for shapes.ts
ShapeCx ==
  Context([prog |-> 1, rot |-> input.rot, rev |-> input.rev], closeExports(ShapeExports, 1),
          input.basedir, "", <<>>)

\* this.extend(name, sep).itemForSymbol(symbol) of gatherSymbols, for the symbol input.symbol
ItemForSymbol ==
  /\ input.kind = "item" /\ ~output.done
  /\ \E r \in {itemForSymbol(extend(ShapeCx, symbolName(input.symbol), ""), input.symbol, "",
                              [stack |-> gettingObjectTypes, depth |-> 0])} :
       /\ output' = Outcome(r)
       /\ gettingObjectTypes' = r.st.stack
  /\ UNCHANGED <<project, calls, log, input>>

NextItem == ItemForSymbol

SpecItem == InitItem /\ [][NextItem]_vars

(***************************************************************************)
(* Contexts on their own: a traversal starts from the context gatherMany   *)
(* constructs and derives every other one with extend and addParams.       *)
(* output.value is the list of the Context objects alive, the root first;  *)
(* input is the last call: its receiver (an index in that list) and its    *)
(* arguments.                                                              *)
(***************************************************************************)
MaxContexts == 4

CxNames == {"x", "T"}

\* the separators extend is called with: "^" (the default) and "." (members)
CxSeps == {"^", "."}

\* a described type parameter as getTypeParam of cx returns it
TypeParamNamed(cx, name) ==
  [BT("typeparam") EXCEPT !.kind = Some("typeparam"), !.name = Some(name),
                          !.id = Some(extend(cx, name, "^").id)]

CxParamLists(cx) ==
  {<<TypeParamNamed(cx, "T")>>, <<TypeParamNamed(cx, "T"), TypeParamNamed(cx, "U")>>}

\* new Context(tc, closedExports, basedir, "", []), for a unit that exports re and rh
RootCx ==
  Context([prog |-> 1, rot |-> 0, rev |-> FALSE], closeExports(<<"re", "rh">>, 1), ConfigDir, "", <<>>)

NoCall == [kind |-> "cx", op |-> "", receiver |-> 0, symbol |-> "", sep |-> "", typeParams |-> <<>>]

\* a call of a method of Context: the receiver as the call leaves it, and what it returns
\* addParams written with unshift on the receiver's own list
addParamsInPlace(cx, typeParams) ==
  [this |-> [cx EXCEPT !.typeParams = typeParams \o @],
   result |-> [cx EXCEPT !.typeParams = typeParams \o @]]

extendCall(cx, symbol, sep) == [this |-> cx, result |-> extend(cx, symbol, sep)]

addParamsCall(cx, typeParams) == [this |-> cx, result |-> addParams(cx, typeParams)]

InitCx ==
  /\ Sym = SymTab /\ Ty = TyTab /\ Sig = SigTab
  /\ gettingObjectTypes = <<>>
  /\ calls = 0
  /\ log = {}
  /\ input = NoCall
  /\ output = [done |-> FALSE, err |-> "", value |-> <<RootCx>>]

Extend ==
  /\ input.kind = "cx" /\ Len(output.value) < MaxContexts
  /\ \E i \in 1..Len(output.value), nm \in CxNames, sep \in CxSeps :
       /\ input' = [NoCall EXCEPT !.op = "extend", !.receiver = i, !.symbol = nm, !.sep = sep]
       /\ output' = [output EXCEPT !.value =
                       Append([@ EXCEPT ![i] = extendCall(output.value[i], nm, sep).this],
                              extendCall(output.value[i], nm, sep).result)]
  /\ UNCHANGED <<project, gettingObjectTypes, calls, log>>

AddParams ==
  /\ input.kind = "cx" /\ Len(output.value) < MaxContexts
  /\ \E i \in 1..Len(output.value) : \E ps \in CxParamLists(output.value[i]) :
       /\ input' = [NoCall EXCEPT !.op = "addParams", !.receiver = i, !.typeParams = ps]
       /\ output' = [output EXCEPT !.value =
                       Append([@ EXCEPT ![i] = addParamsCall(output.value[i], ps).this],
                              addParamsCall(output.value[i], ps).result)]
  /\ UNCHANGED <<project, gettingObjectTypes, calls, log>>

NextCx == Extend \/ AddParams

SpecCx == InitCx /\ [][NextCx]_vars

(***************************************************************************)
(* Properties of the union/intersection branch, over SpecUnion.            *)
(***************************************************************************)
\* the type names of a list of members
TypeNames(args) == [i \in 1..Len(args) |-> args[i].type]

Count(name, names) == Cardinality({i \in 1..Len(names) : names[i] = name})

Without(names, set) == SelectSeq(names, LAMBDA n : n \notin set)

Only(names, set) == SelectSeq(names, LAMBDA n : n \in set)

\* the resolved members of the input: void reads as undefined
Resolved == [i \in 1..Len(input.types) |-> IF input.types[i] = "void" THEN "undefined" ELSE input.types[i]]

\* the members of the emitted union or intersection
Emitted == TypeNames(Get(Get(output.value).typeArgs))

UnionDone == input.kind = "union" /\ output.done /\ output.err = ""

BothLiterals == "true" \in Range(Resolved) /\ "false" \in Range(Resolved)

Booleans == {"true", "false", "boolean"}

Nullish == {"null", "undefined"}

\* C8: a union whose resolved members hold both true and false is emitted
\* with exactly one boolean member, no true or false member, and every other
\* member once and in its original relative order; a union with one of the
\* two literals, and any intersection, keeps its members.
C8_BooleanMerge ==
  UnionDone =>
    IF input.union /\ BothLiterals
    THEN /\ Count("boolean", Emitted) = 1
         /\ Count("true", Emitted) = 0 /\ Count("false", Emitted) = 0
         /\ Without(Emitted, Booleans) = Without(Resolved, Booleans)
    ELSE \A n \in UnionMembers : Count(n, Emitted) = Count(n, Resolved)

\* C9: in every emitted union or intersection no null or undefined member
\* precedes another member, null and undefined keep the relative order of
\* the input member list, and so do the other members.
C9_NullishLast ==
  UnionDone =>
    /\ \A i, j \in 1..Len(Emitted) :
         (i < j /\ Emitted[i] \in Nullish) => Emitted[j] \in Nullish
    /\ Only(Emitted, Nullish) = Only(Resolved, Nullish)
    /\ Without(Emitted, Nullish \cup Booleans) = Without(Resolved, Nullish \cup Booleans)

(***************************************************************************)
(* Properties of default-argument elision, over SpecElide.                 *)
(***************************************************************************)
ElideDone == input.kind = "reference" /\ output.done

\* the emitted type arguments of the reference, none when typeArgs is absent
EmittedArgs ==
  IF IsSome(Get(output.value).typeArgs) THEN Get(Get(output.value).typeArgs) ELSE <<>>

\* the supplied type arguments, resolved
ResolvedArgs == mapGetType(UnitCx(<<input.symbol>>), input.types, EntryState).v

RECURSIVE SameType(_, _, _, _)
\* type a is the type d with the parameters params bound to args
SameType(a, d, params, args) ==
  IF \E j \in 1..Len(params) : params[j] = d
  THEN a = args[CHOOSE j \in 1..Len(params) : params[j] = d]
  ELSE IF TyTab[d].target # "" /\ TyTab[d].target # d
  THEN /\ TyTab[a].target = TyTab[d].target
       /\ Len(Get(TyTab[a].typeArguments)) = Len(Get(TyTab[d].typeArguments))
       /\ \A k \in 1..Len(Get(TyTab[d].typeArguments)) :
            SameType(Get(TyTab[a].typeArguments)[k], Get(TyTab[d].typeArguments)[k], params, args)
  ELSE a = d

RECURSIVE KeptUpTo(_, _, _)
\* how many of the first i arguments stay when the later ones were dropped
KeptUpTo(params, args, i) ==
  IF i = 0 THEN 0
  ELSE IF TyTab[params[i]].default # ""
          /\ SameType(args[i], TyTab[params[i]].default, params, args)
  THEN KeptUpTo(params, args, i - 1)
  ELSE i

\* C5: argument i is dropped exactly when every later argument was dropped,
\* parameter i has a default and argument i is structurally equal to that
\* default with the earlier parameters bound to the supplied arguments; the
\* emitted typeArgs are that prefix of the arguments, absent when empty.
C5_ElisionRule ==
  ElideDone =>
    /\ output.err = ""
    /\ EmittedArgs = SubSeq(ResolvedArgs, 1,
                            KeptUpTo(ParamsOf(input.symbol), input.types, Len(input.types)))

\* [A, B = X, C = Y(B)] is gen:G with X = number and Y(B) = B[]
FirstScenario ==
  /\ ElideDone /\ input.symbol = "gen:G"
  /\ input.types[2] = "number" /\ input.types[3] = "Array<number>"

SecondScenario ==
  /\ ElideDone /\ input.symbol = "gen:G"
  /\ input.types[2] # "number" /\ input.types[3] = "Array<number>"

\* C6 as stated: arguments [A1, X, Y(X)] are emitted as zero type arguments.
C6_ZeroArguments ==
  FirstScenario => output.err = "" /\ ~IsSome(Get(output.value).typeArgs)

\* C6: arguments [A1, X, Y(X)] are emitted as [A1]: C and B are dropped,
\* A, which has no default, is kept.
C6_OnlyFirstKept ==
  FirstScenario => output.err = "" /\ EmittedArgs = SubSeq(ResolvedArgs, 1, 1)

C6_Witness == FirstScenario /\ input.types[1] = "string" /\ Len(EmittedArgs) = 1

\* C7 as stated: arguments [A1, X2, Y(X)] with X2 # X are emitted as [A1, X2].
C7_TwoArguments ==
  SecondScenario => output.err = "" /\ EmittedArgs = SubSeq(ResolvedArgs, 1, 2)

\* C7: arguments [A1, X2, Y(X)] with X2 # X are emitted in full, since Y(X)
\* is not the default Y(X2); it is [A1, X2, Y(X2)] that is emitted as [A1, X2].
C7_AllKept ==
  /\ SecondScenario => output.err = "" /\ EmittedArgs = ResolvedArgs
  /\ (ElideDone /\ input.symbol = "gen:G" /\ input.types[2] = "string"
        /\ input.types[3] = "Array<string>")
       => output.err = "" /\ EmittedArgs = SubSeq(ResolvedArgs, 1, 2)

C7_Witness ==
  SecondScenario /\ input.types[1] = "string" /\ input.types[2] = "string" /\ Len(EmittedArgs) = 3

(***************************************************************************)
(* Properties of gather and gatherMany, over Spec.                         *)
(***************************************************************************)
\* the item maps the completed calls returned for the unit u
Described(u) ==
  UNION {{e.result[i] : i \in {j \in 1..Len(e.specs) : e.specs[j].filename = u}} :
         e \in {x \in log : x.err = ""}}

\* the keys of an optional map
KeysOf(o) == IF IsSome(o) THEN Range(Keys(Get(o))) ELSE {}

\* the entry of key k in an optional map
Entry(o, k) == Lookup(Get(o), k)

\* a node that holds a type name and no structure
Bare(b, type) ==
  /\ b.type = type
  /\ ~IsSome(b.properties) /\ ~IsSome(b.instanceProperties)
  /\ ~IsSome(b.typeArgs) /\ ~IsSome(b.signatures)

\* C1: two calls on the same input (the same unit under the same base directory)
\* return the same item maps, in the same insertion order, whatever the earlier
\* calls were and in whatever order the program enumerated the symbols.
C1_Determinism ==
  \A e1, e2 \in log :
    /\ e1.specs = e2.specs => e1 = e2
    /\ \A i \in 1..Len(e1.specs), j \in 1..Len(e2.specs) :
         (/\ e1.err = "" /\ e2.err = "" /\ e1.specs[i].filename = e2.specs[j].filename
          /\ baseOf(findConfigFile(FileTab[e1.specs[1].filename].path), e1.specs[i])
               = baseOf(findConfigFile(FileTab[e2.specs[1].filename].path), e2.specs[j]))
           => e1.result[i] = e2.result[j]

C1_Witness ==
  /\ calls = 2 /\ Cardinality(log) = 1
  /\ \E e \in log : e.err = "" /\ e.specs[1].filename = "sub" /\ Len(e.result[1]) = 2

\* C2: a structural type that refers to itself, directly (A) or through
\* other structural types (B through C), resolves without error to a finite
\* tree whose self-referential position is a bare Object node.
C2_RecursionGuard ==
  /\ \A e \in log : (\A i \in 1..Len(e.specs) : e.specs[i].filename = "rec") => e.err = ""
  /\ \A m \in Described("rec") :
       /\ Bare(Entry(Entry(Some(m), "n").properties, "next"), "Object")
       /\ Bare(Entry(Entry(Entry(Some(m), "m").properties, "c").properties, "b"), "Object")

C2_Witness ==
  \E m \in Described("rec") :
    /\ KeysOf(Entry(Some(m), "n").properties) = {"next", "val"}
    /\ KeysOf(Entry(Entry(Some(m), "m").properties, "c").properties) = {"b"}

\* C3: the stack of object types being resolved is empty after every call of
\* gather or gatherMany, returned or aborted, and a call repeated after any
\* other call gives the same outcome.
C3_StackBalanced ==
  /\ gettingObjectTypes = <<>>
  /\ \A e1, e2 \in log : e1.specs = e2.specs => (e1.err = e2.err /\ e1.result = e2.result)

C3_Witness ==
  /\ calls = 2 /\ gettingObjectTypes = <<>>
  /\ \E e \in log : e.specs[1].filename = "bad" /\ e.err # ""
  /\ Described("idx") # {}

\* C4: a member that is private or whose description holds @internal is in
\* no output map (top-level, properties, instanceProperties) and a private
\* constructor is not emitted, while the undecorated siblings are there; the
\* call that leaves them out completes without an error.
C4_PrivateInternalFiltered ==
  /\ \A e \in log : (\A i \in 1..Len(e.specs) : e.specs[i].filename = "vis") => e.err = ""
  /\ \A m \in Described("vis") :
       /\ KeysOf(Some(m)) = {"Vis", "shown", "o", "Own"}
       /\ KeysOf(Entry(Some(m), "Vis").properties) = {"s"}
       /\ KeysOf(Entry(Some(m), "Vis").instanceProperties) = {"r", "y"}
       /\ KeysOf(Entry(Some(m), "o").properties) = {"j"}
       /\ IsSome(Entry(Some(m), "Vis").construct)
       /\ ~IsSome(Entry(Some(m), "Own").construct)

C4_Witness ==
  \E m \in Described("vis") : "r" \in KeysOf(Entry(Some(m), "Vis").instanceProperties)

\* C10 as stated: the instanceProperties of the subclass Bar hold exactly the
\* keys a, b and d, and d carries its description.
C10_OverridesListed ==
  \A m \in Described("sub") :
    /\ KeysOf(Entry(Some(m), "Bar").instanceProperties) = {"a", "b", "d"}
    /\ Entry(Entry(Some(m), "Bar").instanceProperties, "d").description = Some(FnDoc)

\* C10: the instanceProperties of the subclass Bar hold exactly the key d,
\* with its description: the overrides a and b, which have no doc comment,
\* are left out like the inherited c.
C10_OnlyDocumentedOverride ==
  \A m \in Described("sub") :
    /\ KeysOf(Entry(Some(m), "Bar").instanceProperties) = {"d"}
    /\ Entry(Entry(Some(m), "Bar").instanceProperties, "d").description = Some(FnDoc)
    /\ KeysOf(Entry(Some(m), "Foo").instanceProperties) = {"a", "b", "c", "d"}

C10_Witness ==
  \E m \in Described("sub") : "d" \in KeysOf(Entry(Some(m), "Bar").instanceProperties)

Runs(u) ==
  UNION {{[basedir |-> baseOf(findConfigFile(FileTab[e.specs[1].filename].path), e.specs[i]),
           map |-> e.result[i]] : i \in {j \in 1..Len(e.specs) : e.specs[j].filename = u}} :
         e \in {x \in log : x.err = ""}}

\* the alias, class or interface that is the declared type of each exported variable
TypeOfExport == ("a" :> "U") @@ ("c" :> "inl:Foo") @@ ("d" :> "Dep") @@ ("e" :> "E")

\* b is a reference to symbol by name, with nothing inlined
NamesSymbol(b, symbol) ==
  /\ b.type = Sym[symbol].name
  /\ IsSome(b.typeSource)
  /\ b.typeArgs = None /\ b.properties = None /\ b.instanceProperties = None

\* b carries the structure of its type
Inlined(b) == b.typeSource = None /\ (IsSome(b.typeArgs) \/ IsSome(b.properties))

\* symbol is declared in a file below basedir
DeclaredInside(basedir, symbol) ==
  /\ IsPrefix(basedir, FileTab[Sym[symbol].file].path)
  /\ Len(FileTab[Sym[symbol].file].path) > Len(basedir)

\* symbol is declared in a file below a node_modules directory below basedir
InPackage(basedir, symbol) ==
  /\ DeclaredInside(basedir, symbol)
  /\ "node_modules" \in Range(SubSeq(FileTab[Sym[symbol].file].path, Len(basedir) + 1,
                                     Len(FileTab[Sym[symbol].file].path)))

Exported(u, symbol) == symbol \in Range(closeExports(UnitTab[u].exports, 1))

Listed(u) ==
  {Sym[x].name : x \in {y \in Range(UnitTab[u].exports) : ~IsInternal(Some(Sym[y].doc))}}

\* C13: a call that returns gives one item map per requested unit, in the order of
\* the request: the i-th map lists the exports of the i-th unit.
C13_OneMapPerUnitInOrder ==
  \A e \in log : e.err = "" =>
    /\ Len(e.result) = Len(e.specs)
    /\ \A i \in 1..Len(e.specs) : KeysOf(Some(e.result[i])) = Listed(e.specs[i].filename)

C13_Witness ==
  \E e \in log :
    /\ e.err = "" /\ Len(e.specs) = 2
    /\ e.specs[1].filename = "far" /\ e.specs[2].filename = "rec"
    /\ KeysOf(Some(e.result[1])) = {"f"} /\ KeysOf(Some(e.result[2])) = {"n", "m"}

\* the exported symbol of unit u that is listed under key k
ExportNamed(u, k) == CHOOSE x \in Range(UnitTab[u].exports) : Sym[x].name = k

\* (file, position) of a is before that of b, or equal to it
NotAfter(a, b) ==
  \/ FileTab[Sym[a].file].rank < FileTab[Sym[b].file].rank
  \/ /\ FileTab[Sym[a].file].rank = FileTab[Sym[b].file].rank
     /\ Sym[a].pos <= Sym[b].pos

\* C14: in every returned item map the keys stand in ascending (declaring file,
\* declaration position) order of their symbols, whatever order the checker
\* enumerated the symbols in; so do the keys of the nested property maps.  A
\* symbol without a declaration is sorted before the declared ones.
C14_AscendingDeclarationOrder ==
  /\ \A e \in log : e.err = "" =>
       \A u \in 1..Len(e.specs) : \A i, j \in 1..Len(e.result[u]) :
         i < j => NotAfter(ExportNamed(e.specs[u].filename, e.result[u][i].k),
                           ExportNamed(e.specs[u].filename, e.result[u][j].k))
  /\ \A m \in Described("sub") :
       Keys(Get(Entry(Some(m), "Foo").instanceProperties)) = <<"a", "b", "c", "d">>
  /\ \A m \in Described("vis") :
       Keys(Get(Entry(Some(m), "Vis").instanceProperties)) = <<"r", "y">>
  /\ \A m \in Described("rec") :
       Keys(Get(Entry(Some(m), "n").properties)) = <<"next", "val">>
  /\ \A rot \in 0..MaxRot, rev \in BOOLEAN :
       SortSymbols(Enumerate([prog |-> 1, rot |-> rot, rev |-> rev],
                             <<"Foo.b", "prototype", "Foo.a">>))
         = <<"prototype", "Foo.a", "Foo.b">>

C14_Witness ==
  /\ \E m \in Described("sub") : Keys(m) = <<"Foo", "Bar">>
  /\ \E m \in Described("idx") : Len(m) = 9 /\ m[1].k = "attrs" /\ m[9].k = "e"

\* C15: the item map a call returns for a unit is the same in every batch the unit
\* is requested in, wherever it stands in the batch, and the same as when it is
\* requested alone.
C15_BatchIndependence ==
  \A e1, e2 \in log : \A i \in 1..Len(e1.specs), j \in 1..Len(e2.specs) :
    (e1.err = "" /\ e2.err = "" /\ e1.specs[i] = e2.specs[j]) => e1.result[i] = e2.result[j]

(***************************************************************************)
(* Ids.                                                                    *)
(***************************************************************************)
\* the concatenation of the sequences of a sequence
RECURSIVE Flatten(_)
Flatten(ss) == IF ss = <<>> THEN <<>> ELSE Flatten(Front(ss)) \o Last(ss)

\* the id strings of a description and of everything below it, one per occurrence
RECURSIVE IdsOf(_)
IdsOfAll(bs) == Flatten([i \in 1..Len(bs) |-> IdsOf(bs[i])])

IdsOfOptional(o) == IF IsSome(o) THEN IdsOfAll(Get(o)) ELSE <<>>

IdsOfMap(o) == IF IsSome(o) THEN IdsOfAll([i \in 1..Len(Get(o)) |-> Get(o)[i].v]) ELSE <<>>

IdsOfSignature(sig) ==
  IdsOfOptional(sig.typeParams) \o IdsOfAll(sig.params) \o IdsOfAll(sig.returns)

IdsOf(b) ==
  (IF IsSome(b.id) THEN <<Get(b.id)>> ELSE <<>>)
    \o IdsOfOptional(b.typeParams) \o IdsOfOptional(b.typeArgs)
    \o IdsOfAll(b.extends) \o IdsOfOptional(b.implements) \o IdsOfAll(b.construct)
    \o (IF IsSome(b.signatures)
        THEN Flatten([i \in 1..Len(Get(b.signatures)) |-> IdsOfSignature(Get(b.signatures)[i])])
        ELSE <<>>)
    \o IdsOfMap(b.properties) \o IdsOfMap(b.instanceProperties)

\* the id strings of an item map
IdsIn(map) == IdsOfAll([n \in 1..Len(map) |-> map[n].v])

\* C16: in the item map a call returns for a unit no id string occurs twice.
C16_IdsUnique ==
  \A e \in log : e.err = "" =>
    \A u \in 1..Len(e.result) : \A i, j \in 1..Len(IdsIn(e.result[u])) :
      i # j => IdsIn(e.result[u])[i] # IdsIn(e.result[u])[j]

StripDone == input.kind = "comment" /\ output.done

\* the text stripComment returned for input.lines
Stripped == IF IsSome(output.value) THEN Get(output.value) ELSE <<>>

\* C18: a description that is set is not empty, its first and its last line are not
\* blank, and it neither starts nor ends in white space.
C18_DescriptionTrimmed ==
  (StripDone /\ IsSome(output.value)) =>
    /\ Stripped # <<>>
    /\ Head(Stripped) # <<>> /\ Last(Stripped) # <<>>
    /\ Head(Head(Stripped)) \notin WhiteSpace
    /\ Last(Last(Stripped)) \notin WhiteSpace

\* C19: stripComment applied to the lines of the text it returned returns that text.
C19_Idempotent ==
  (StripDone /\ log # {}) => log = {Stripped}

(***************************************************************************)
(* Alias cycles outside getObjectType (unit cyc).                          *)
(***************************************************************************)
\* C20: getType returns a description for a type whose alias refers to itself
\* through a type argument of an available generic (type T = string | T[]).
C20_GetTypeReturns ==
  \A e \in log : (\A i \in 1..Len(e.specs) : e.specs[i].filename = "cyc") => e.err = ""

(***************************************************************************)
(* Properties of compareTypes, over SpecElide: the comparison of a         *)
(* supplied argument with the described default of its parameter.          *)
(***************************************************************************)
\* the context getReferenceType describes the defaults in
DefaultsCx == addParams(UnitCx(<<input.symbol>>), asParams(ParamsOf(input.symbol), ResolvedArgs))

\* compare: the described default of parameter i
DescribedDefault(i) ==
  getType(DefaultsCx, TyTab[ParamsOf(input.symbol)[i]].default, "", EntryState).v

RECURSIVE StructurallyEqual(_, _, _)
RECURSIVE EqualSignature(_, _, _)
\* a and b agree on tag, declaring source, property names, type arguments and
\* signatures, and on every property, argument and signature in turn, once a
\* parameter reference in b is replaced by the argument bound to it
StructurallyEqual(a, b0, paramMap) ==
  LET b == Substitute(b0, paramMap, Len(paramMap) + 1)
  IN /\ a.type = b.type /\ a.typeSource = b.typeSource
     /\ a.typeParamSource = b.typeParamSource
     /\ KeysOf(a.properties) = KeysOf(b.properties)
     /\ IsSome(a.properties) = IsSome(b.properties)
     /\ \A k \in KeysOf(a.properties) :
          StructurallyEqual(Entry(a.properties, k), Entry(b.properties, k), paramMap)
     /\ IsSome(a.typeArgs) = IsSome(b.typeArgs)
     /\ IsSome(a.typeArgs) =>
          /\ Len(Get(a.typeArgs)) = Len(Get(b.typeArgs))
          /\ \A i \in 1..Len(Get(a.typeArgs)) :
               StructurallyEqual(Get(a.typeArgs)[i], Get(b.typeArgs)[i], paramMap)
     /\ IsSome(a.signatures) = IsSome(b.signatures)
     /\ IsSome(a.signatures) =>
          /\ Len(Get(a.signatures)) = Len(Get(b.signatures))
          /\ \A i \in 1..Len(Get(a.signatures)) :
               EqualSignature(Get(a.signatures)[i], Get(b.signatures)[i], paramMap)

EqualSignature(a, b, paramMap) ==
  /\ a.type = b.type /\ IsSome(a.returns) = IsSome(b.returns)
  /\ Len(a.params) = Len(b.params)
  /\ \A i \in 1..Len(a.params) : StructurallyEqual(a.params[i], b.params[i], paramMap)
  /\ IsSome(a.returns) => StructurallyEqual(Get(a.returns), Get(b.returns), paramMap)

\* the parameters of the reference that have a default
WithDefault == {i \in 1..Len(input.types) : TyTab[ParamsOf(input.symbol)[i]].default # ""}

\* C21: compareTypes(a, b) is true only if a and b have the same tag,
\* declaring source, property names, type arguments and signatures and, for
\* every property name k, a.properties[k] and b.properties[k] are structurally
\* equal in turn, parameter references in b being replaced by the argument
\* bound to them.
C21_TrueOnlyIfStructurallyEqual ==
  ElideDone =>
    \A i \in WithDefault :
      compareTypes(ResolvedArgs[i], DescribedDefault(i), ResolvedArgs) = "true"
        => StructurallyEqual(ResolvedArgs[i], DescribedDefault(i), ResolvedArgs)

(***************************************************************************)
(* Properties of itemForSymbol and getType, over SpecItem.                 *)
(***************************************************************************)
ItemDone == input.kind = "item" /\ output.done

\* itemForSymbol returned an item, and that item
ItemReturned == ItemDone /\ output.err = "" /\ IsSome(Get(output.value))

Item == Get(Get(output.value))

\* the type arguments of the item, none when typeArgs is absent
ItemArgs == IF IsSome(Item.typeArgs) THEN Get(Item.typeArgs) ELSE <<>>

\* the alias the type of symbol carries ("" for none) and the arguments it is applied to
AliasOf(symbol) == Ty[symbolType(symbol)].aliasSymbol

AliasArgs(symbol) ==
  IF IsSome(Ty[symbolType(symbol)].aliasTypeArguments)
  THEN Get(Ty[symbolType(symbol)].aliasTypeArguments) ELSE <<>>

\* the type parameters the declaration of alias declares
AliasParams(alias) ==
  IF IsSome(Ty[Sym[alias].type].aliasTypeArguments)
  THEN Get(Ty[Sym[alias].type].aliasTypeArguments) ELSE <<>>

\* the symbol described has a type that carries an available alias declared elsewhere
MeetsAlias ==
  /\ ItemDone /\ AliasOf(input.symbol) \notin {"", input.symbol}
  /\ isAvailable(ShapeCx, AliasOf(input.symbol))

\* the arguments of the alias without the trailing ones that equal the declared defaults
AliasArgsKept ==
  SubSeq(AliasArgs(input.symbol), 1,
         KeptUpTo(AliasParams(AliasOf(input.symbol)), AliasArgs(input.symbol),
                  Len(AliasArgs(input.symbol))))

\* C22: a symbol whose type carries an available alias that is not the symbol's
\* own declaration is described as a bare reference to the alias (no members
\* expanded), with the alias's type arguments less the trailing ones equal to
\* the declared defaults; so is a different type alias of the same type
\* (type B = A).
C22_AliasEmittedAsReference ==
  MeetsAlias =>
    /\ ItemReturned
    /\ Item.type = Sym[AliasOf(input.symbol)].name
    /\ Item.properties = None /\ Item.signatures = None
    /\ ItemArgs = mapGetType(ShapeCx, AliasArgsKept, EntryState).v

\* the constructor overloads of class c that are neither private nor marked internal
RemainingCtors(c) ==
  SelectSeq(Sym[c].members, LAMBDA m :
    /\ m.kind = "Constructor"
    /\ \E sg \in Range(Ty[Sym[c].type].constructSignatures) : Sig[sg].declaration = m.id
    /\ "Private" \notin m.mods /\ "@internal" \notin Range(m.doc))

\* the parameter names of the overload declared by the member m of class c
OverloadParams(c, m) ==
  LET sg == CHOOSE x \in Range(Ty[Sym[c].type].constructSignatures) : Sig[x].declaration = m.id
  IN [j \in 1..Len(Sig[sg].parameters) |-> Some(Sym[Sig[sg].parameters[j]].name)]

ClassDescribed == ItemReturned /\ "Class" \in Sym[input.symbol].flags

\* the signatures of the construct entry
ConstructSignatures == Get(Get(Item.construct).signatures)

\* C23: the construct entry of a class is that of its first constructor overload
\* that is neither private nor marked internal, and its signatures are that
\* overload and every other remaining overload, in order, none with a return
\* type; a class none of whose overloads remains has no construct entry.
C23_ConstructHoldsEveryOverload ==
  ClassDescribed =>
    IF RemainingCtors(input.symbol) = <<>> THEN Item.construct = None
    ELSE /\ IsSome(Item.construct)
         /\ Get(Item.construct).kind = Some("constructor")
         /\ Get(Get(Item.construct).loc).line = (RemainingCtors(input.symbol)[1].pos \div 10) + 1
         /\ Len(ConstructSignatures) = Len(RemainingCtors(input.symbol))
         /\ \A i \in 1..Len(ConstructSignatures) :
              /\ ConstructSignatures[i].type = "constructor"
              /\ ConstructSignatures[i].returns = None
              /\ [j \in 1..Len(ConstructSignatures[i].params) |->
                    ConstructSignatures[i].params[j].name]
                   = OverloadParams(input.symbol, RemainingCtors(input.symbol)[i])

\* the instance type of class c, and its property named n
InstanceType(c) == Sig[Ty[Sym[c].type].constructSignatures[1]].returnType

InstanceProperty(c, n) == CHOOSE p \in Range(Ty[InstanceType(c)].properties) : Sym[p].name = n

\* the names of the properties, inherited ones included, of the types named in
\* the extends and implements clauses of class c
ParentNames(c) ==
  UNION {UNION {Names(Ty[h.types[i]].properties) : i \in 1..Len(h.types)} :
         h \in Range(Sym[c].heritageClauses)}

\* the instance members class c declares in its body, and the parameter
\* properties its constructors declare with one of the modifiers mods
BodyMembers(c) ==
  {Sym[m.symbol].name :
     m \in {x \in Range(Sym[c].members) : x.kind # "Constructor" /\ "Static" \notin x.mods}}

ParameterProperties(c, mods) ==
  UNION {{Sym[m.parameters[j].symbol].name :
            j \in {k \in 1..Len(m.parameters) : m.parameters[k].mods \cap mods # {}}} :
         m \in {x \in Range(Sym[c].members) : x.kind = "Constructor"}}

NonPrivate(c, names) == {n \in names : "Private" \notin Sym[InstanceProperty(c, n)].mods}

\* has its own description, or is not a property of a parent
DocumentedOrNew(c, n) ==
  Sym[InstanceProperty(c, n)].doc # <<>> \/ n \notin ParentNames(c)

\* no instanceProperties key rather than an empty map
NoEmptyMap == Item.instanceProperties # Some(<<>>)

\* the declared, non-private instance members of class c that are not marked internal
DeclaredMembers(c) ==
  {n \in NonPrivate(c, BodyMembers(c) \cup ParameterProperties(c, {"Public", "Protected", "Readonly"})) :
     "@internal" \notin Range(Sym[InstanceProperty(c, n)].doc)}

\* C24: a declared, non-private instance member of a class (declared in the class
\* body or as a parameter property, and not marked internal) is a key of
\* instanceProperties if and only if it has its own description or its name is
\* not a property of a type of the extends and implements clauses, inherited
\* properties included; a class with no emitted member has no instanceProperties key.
C24_EmittedIffDocumentedOrNew ==
  ClassDescribed =>
    /\ \A n \in DeclaredMembers(input.symbol) :
         n \in KeysOf(Item.instanceProperties) <=> DocumentedOrNew(input.symbol, n)
    /\ KeysOf(Item.instanceProperties) \subseteq DeclaredMembers(input.symbol)
    /\ NoEmptyMap

(***************************************************************************)
(* Type-parameter references in a description.  Scope is the list of       *)
(* typeparam entries in force at a node, the nearest first.                *)
(***************************************************************************)
\* the nearest entry of scope named name: its index, 0 when there is none
Nearest(scope, name) ==
  IF \E i \in 1..Len(scope) : scope[i].name = Some(name)
  THEN CHOOSE i \in 1..Len(scope) :
         scope[i].name = Some(name) /\ \A j \in 1..(i - 1) : scope[j].name # Some(name)
  ELSE 0

\* the reference b names the nearest entry of scope
PointsToNearest(b, scope) ==
  /\ Nearest(scope, b.type) # 0
  /\ b.typeParamSource = scope[Nearest(scope, b.type)].id

OptSeq(o) == IF IsSome(o) THEN Get(o) ELSE <<>>

\* every type-parameter reference of description b and of everything below it
\* names the nearest entry in force where it stands: the entries of a typeParams
\* list come before those of the enclosing declarations, inside one list the
\* constraint of an entry sees the entries before it, the latest first, and the
\* key of a mapped type comes first for its value type
RECURSIVE RefsResolved(_, _)
AllResolved(bs, scope) == \A i \in 1..Len(bs) : RefsResolved(bs[i], scope)

ParamsResolved(ps, scope) ==
  \A i \in 1..Len(ps) : AllResolved(OptSeq(ps[i].implements), Reverse(SubSeq(ps, 1, i - 1)) \o scope)

SignatureResolved(sig, scope) ==
  /\ ParamsResolved(OptSeq(sig.typeParams), scope)
  /\ AllResolved(sig.params, OptSeq(sig.typeParams) \o scope)
  /\ AllResolved(sig.returns, OptSeq(sig.typeParams) \o scope)

MapResolved(o, scope) == \A i \in 1..Len(OptSeq(o)) : RefsResolved(Get(o)[i].v, scope)

RefsResolved(b, scope) ==
  LET inner == OptSeq(b.typeParams) \o scope IN
  /\ IsSome(b.typeParamSource) => PointsToNearest(b, scope)
  /\ ParamsResolved(OptSeq(b.typeParams), scope)
  /\ ParamsResolved(b.key, inner)
  /\ AllResolved(OptSeq(b.typeArgs), b.key \o inner)
  /\ AllResolved(b.extends, inner) /\ AllResolved(OptSeq(b.implements), inner)
  /\ AllResolved(b.construct, inner)
  /\ \A i \in 1..Len(OptSeq(b.signatures)) : SignatureResolved(Get(b.signatures)[i], inner)
  /\ MapResolved(b.properties, inner) /\ MapResolved(b.instanceProperties, inner)

\* a variable whose type is a type parameter: no declaration around an export
\* brings one into scope
Escaped(symbol) ==
  "Variable" \in Sym[symbol].flags /\ "TypeParameter" \in Ty[symbolType(symbol)].flags

\* C25: every type-parameter reference of a described item carries, as
\* typeParamSource, the id of the nearest entry with its name (entries added by a
\* later addParams come first); a symbol whose type is a type parameter that no
\* entry names makes itemForSymbol fail with 'Unknown type parameter', without a value.
C25_TypeParameterResolution ==
  /\ ItemReturned => RefsResolved(Item, <<>>)
  /\ ItemDone =>
       (Escaped(input.symbol) <=> (output.err = "Unknown type parameter" /\ output.value = None))

\* the signature of property f of Sh, described
ShF == Get(Lookup(Get(Item.properties), "f").signatures)[1]

C25_Witness ==
  /\ ItemReturned /\ input.symbol = "Sh"
  /\ Lookup(Get(Item.properties), "g").typeParamSource = Some("Sh^T")
  /\ ShF.params[1].typeParamSource = Some("Sh.f^T")
  /\ Get(Get(ShF.typeParams)[2].implements)[1].typeParamSource = Some("Sh.f^T")

(***************************************************************************)
(* The kind of an item.                                                    *)
(***************************************************************************)
\* the kinds in the order of their tests, and the flags each test looks at
KindOrder ==
  <<"property", "method", "enum", "enummember", "class", "function", "interface",
    "typealias", "variable", "typeparam">>

KindFlags ==
  <<{"Property", "GetAccessor", "SetAccessor"}, {"Method"}, {"Enum"}, {"EnumMember"}, {"Class"},
    {"Function"}, {"Interface"}, {"TypeAlias"}, {"Variable"}, {"TypeParameter"}>>

Matching(flags) == {i \in 1..Len(KindOrder) : KindFlags[i] \cap flags # {}}

\* the first kind of KindOrder that flags match, "" when none does
FirstKind(flags) ==
  IF Matching(flags) = {} THEN ""
  ELSE KindOrder[CHOOSE i \in Matching(flags) : \A j \in Matching(flags) : i <= j]

\* the symbol an alias stands for: aliases are followed while the target is
\* declared inside basedir
RECURSIVE ResolvedInside(_, _)
ResolvedInside(basedir, symbol) ==
  IF "Alias" \in Sym[symbol].flags /\ DeclaredInside(basedir, Sym[symbol].aliased)
  THEN ResolvedInside(basedir, Sym[symbol].aliased) ELSE symbol

\* aliases are followed while the target is declared inside basedir and not
\* below a node_modules directory
RECURSIVE ResolvedLocal(_, _)
ResolvedLocal(basedir, symbol) ==
  IF /\ "Alias" \in Sym[symbol].flags
     /\ DeclaredInside(basedir, Sym[symbol].aliased)
     /\ ~InPackage(basedir, Sym[symbol].aliased)
  THEN ResolvedLocal(basedir, Sym[symbol].aliased) ELSE symbol

ClassificationError == "Can not determine a kind for symbol"

\* the item of input.symbol is classified as target, the symbol its aliases resolve to
ClassifiedAs(target) ==
  IF "Alias" \in Sym[target].flags
  THEN ItemReturned /\ Item.kind = Some("reexport") /\ Item.id = Some(symbolName(input.symbol))
  ELSE IF FirstKind(Sym[target].flags) = "" THEN output.err = ClassificationError
  ELSE /\ output.err # ClassificationError
       /\ ItemReturned => /\ Item.kind = Some(FirstKind(Sym[target].flags))
                          /\ Item.id = Some(symbolName(input.symbol))

Receiver == output.value[input'.receiver]

Returned == Last(output'.value)

\* a context that differs from cx in its id and its typeParams at most
SameBut(new, cx, id, typeParams) ==
  new = Context(cx.tc, cx.exports, cx.basedir, id, typeParams)

\* C27: a call of extend or addParams leaves every context alive before it, the
\* receiver included, as it was and returns a new one: extend one whose id is
\* the receiver's id, the separator and the name (the bare name when the
\* receiver's id is empty) with the receiver's typeParams; addParams one with the
\* receiver's id whose typeParams are the new parameters followed by the
\* receiver's.
C27_ContextsImmutable ==
  [][input.kind = "cx" =>
       /\ Len(output'.value) = Len(output.value) + 1
       /\ \A i \in 1..Len(output.value) : output'.value[i] = output.value[i]
       /\ input'.op = "extend" =>
            SameBut(Returned, Receiver,
                    IF Receiver.id = "" THEN input'.symbol
                    ELSE Receiver.id \o input'.sep \o input'.symbol,
                    Receiver.typeParams)
       /\ input'.op = "addParams" =>
            /\ SameBut(Returned, Receiver, Receiver.id, input'.typeParams \o Receiver.typeParams)
            /\ SubSeq(Returned.typeParams, 1, Len(input'.typeParams)) = input'.typeParams]_vars

\* addParams has been called on a context that has type parameters and an id
C27_Witness ==
  /\ input.kind = "cx" /\ input.op = "addParams"
  /\ output.value[input.receiver].typeParams # <<>>
  /\ output.value[input.receiver].id # ""
  /\ Last(output.value).typeParams = input.typeParams \o output.value[input.receiver].typeParams

(***************************************************************************)
(* Mapped types.                                                           *)
(***************************************************************************)
\* the type of symbol is a mapped type; the declaration of that type
IsMapped(symbol) == "Mapped" \in Ty[symbolType(symbol)].objectFlags

MappedDecl(symbol) == Sym[Ty[symbolType(symbol)].symbol]

\* the mapped node of the item carries the key parameter of the declaration and
\* one value type, the description of the declaration's type node
CarriesKeyAndValue ==
  /\ Item.type = "mapped"
  /\ IsSome(Item.key)
  /\ Get(Item.key).kind = Some("typeparam")
  /\ Get(Item.key).name = Some(Sym[MappedDecl(input.symbol).typeParameter].name)
  /\ Get(Item.key).id = Some(symbolName(input.symbol) \o "^" \o Get(Get(Item.key).name))
  /\ Len(OptSeq(Item.typeArgs)) = 1
  /\ Get(Item.typeArgs)[1].type =
       (IF "IndexedAccess" \in Ty[MappedDecl(input.symbol).innerType].flags THEN "indexed"
        ELSE Sym[Ty[MappedDecl(input.symbol).innerType].symbol].name)

\* C28 as stated: the key parameter of a mapped type is resolved in a scope of
\* its own, the value type in the scope that holds that key only, and the mapped
\* node carries the key and the value type.
C28_KeyAloneInScope ==
  (ItemDone /\ IsMapped(input.symbol)) =>
    /\ ItemReturned
    /\ CarriesKeyAndValue
    /\ ParamsResolved(Item.key, <<>>)
    /\ AllResolved(OptSeq(Item.typeArgs), Item.key)

\* C28: the key parameter of a mapped type is resolved in the scope of the
\* enclosing declarations, the value type in that scope with the key put in
\* front, and the mapped node carries the key and the value type.
C28_KeyAddedToScope ==
  (ItemDone /\ IsMapped(input.symbol)) =>
    /\ ItemReturned
    /\ CarriesKeyAndValue
    /\ ParamsResolved(Item.key, OptSeq(Item.typeParams))
    /\ AllResolved(OptSeq(Item.typeArgs), Item.key \o OptSeq(Item.typeParams))

\* Mp<T> = {[K in keyof T]: T[K]} described: T[K] names Mp^T and Mp^K
C28_Witness ==
  /\ ItemReturned /\ input.symbol = "Mp" /\ Item.type = "mapped"
  /\ Get(Item.key).id = Some("Mp^K")
  /\ Get(Get(Item.typeArgs)[1].typeArgs)[1].typeParamSource = Some("Mp^T")
  /\ Get(Get(Item.typeArgs)[1].typeArgs)[2].typeParamSource = Some("Mp^K")
  /\ Get(Get(Get(Item.key).implements)[1].typeArgs)[1].typeParamSource = Some("Mp^T")

(***************************************************************************)
(* getComments on its own: the scan of the text before a node, one         *)
(* iteration of its loop at a time.  A text is a sequence of characters    *)
(* made of the segments below; output holds the locals pos, lines and      *)
(* blankLine, and the string the function returns as the list of its       *)
(* lines.                                                                  *)
(***************************************************************************)
MaxSegments == 4

\* node.pos, the position the scan starts at
MaxStart == 1

DocLine == <<"/", "/", "/", "a">>

PlainLine == <<"/", "/", "b">>

DocBlock == <<"/", "*", "*", "c", "*", "/">>

PlainBlock == <<"/", "*", "d", "*", "/">>

NewLine == <<"\n">>

Slash == <<"/">>

OpenBlock == <<"/", "*">>

ScanSegments == {DocLine, PlainLine, DocBlock, PlainBlock, NewLine, Slash, OpenBlock}

\* isWhiteSpaceLike and isLineBreak on the characters of the texts
WhiteSpaceLike == {" ", "\n"}

LineBreak == {"\n"}

\* text.charCodeAt(pos), "NaN" beyond the end
charCodeAt(text, pos) == IF pos < Len(text) THEN text[pos + 1] ELSE "NaN"

\* text.slice(start, end)
slice(text, start, end) == SubSeq(text, start + 1, Min(end, Len(text)))

\* while (pos < text.length && !isLineBreak(text.charCodeAt(pos))) pos++
RECURSIVE lineEnd(_, _)
lineEnd(text, pos) ==
  IF pos < Len(text) /\ charCodeAt(text, pos) \notin LineBreak THEN lineEnd(text, pos + 1) ELSE pos

\* for (pos = start; pos < text.length; ++pos) if (asterisk then slash) break
RECURSIVE commentEnd(_, _)
commentEnd(text, pos) ==
  IF pos < Len(text) /\ ~(charCodeAt(text, pos) = "*" /\ charCodeAt(text, pos + 1) = "/")
  THEN commentEnd(text, pos + 1) ELSE pos

\* /\S/.test(line)
NonBlank(line) == \E i \in 1..Len(line) : line[i] \notin WhiteSpaceLike

\* add(line), on the locals sc
add(line, sc) ==
  [sc EXCEPT !.blankLine = FALSE,
             !.lines = IF sc.blankLine /\ @ # <<>> /\ NonBlank(Last(@))
                       THEN @ \o << <<>>, line >> ELSE Append(@, line)]

\* the branch nextCh === 47
lineComment(text, sc) ==
  LET doc == charCodeAt(text, sc.pos + 2) = "/"
      start == sc.pos + (IF doc THEN 3 ELSE 2)
      end == lineEnd(text, start)
  IN [(IF doc THEN add(slice(text, start, end), sc) ELSE sc) EXCEPT !.pos = end]

\* the branch nextCh === 42
blockComment(text, sc) ==
  LET doc == charCodeAt(text, sc.pos + 2) = "*"
      start == sc.pos + (IF doc THEN 3 ELSE 2)
      end == commentEnd(text, start)
  IN [(IF doc THEN add(slice(text, start, end), sc) ELSE sc) EXCEPT !.pos = end + 2]

\* one iteration of the loop that does not break
iteration(text, sc) ==
  IF charCodeAt(text, sc.pos) = "/"
  THEN IF charCodeAt(text, sc.pos + 1) = "/" THEN lineComment(text, sc)
       ELSE IF charCodeAt(text, sc.pos + 1) = "*" THEN blockComment(text, sc)
       ELSE sc
  ELSE [sc EXCEPT !.pos = @ + 1,
                  !.blankLine = @ \/ (charCodeAt(text, sc.pos) = "\n"
                                      /\ charCodeAt(text, sc.pos + 1) = "\n")]

\* the loop goes on: pos < text.length and the character is a slash or white space
Scanning(text, pos) ==
  pos < Len(text) /\ charCodeAt(text, pos) \in {"/"} \cup WhiteSpaceLike

ScanInputs ==
  {[kind |-> "scan", segments |-> q, text |-> Flatten(q), pos |-> p] :
     q \in SeqsUpTo(ScanSegments, MaxSegments), p \in 0..MaxStart}

InitScan ==
  /\ Sym = SymTab /\ Ty = TyTab /\ Sig = SigTab
  /\ gettingObjectTypes = <<>>
  /\ calls = 0
  /\ log = {}
  /\ input \in ScanInputs
  /\ output = [done |-> FALSE, err |-> "", value |-> <<>>,
               pos |-> input.pos, lines |-> <<>>, blankLine |-> FALSE]

Locals == [pos |-> output.pos, lines |-> output.lines, blankLine |-> output.blankLine]

Iterate ==
  /\ input.kind = "scan" /\ ~output.done
  /\ Scanning(input.text, output.pos)
  /\ output' = [output EXCEPT !.pos = iteration(input.text, Locals).pos,
                              !.lines = iteration(input.text, Locals).lines,
                              !.blankLine = iteration(input.text, Locals).blankLine]
  /\ UNCHANGED <<project, gettingObjectTypes, calls, log, input>>

\* the loop is left, at its test or with break: return stripComment(lines)
ReturnComment ==
  /\ input.kind = "scan" /\ ~output.done
  /\ ~Scanning(input.text, output.pos)
  /\ output' = [output EXCEPT !.done = TRUE, !.value = stripComment(output.lines)]
  /\ UNCHANGED <<project, gettingObjectTypes, calls, log, input>>

NextScan == Iterate \/ ReturnComment

SpecScan == InitScan /\ [][NextScan]_vars

\* the engine runs the function to its end
SpecScanFair == SpecScan /\ WF_vars(NextScan)

(***************************************************************************)
(* Properties of getComments (specifications SpecScan and SpecScanFair).   *)
(***************************************************************************)
ScanDone == input.kind = "scan" /\ output.done

\* the text is a sequence of whole comments and line ends: no lone slash, no
\* unterminated block comment, and every line comment ends its line
WholeComments(q) ==
  /\ \A i \in 1..Len(q) : q[i] \in {DocLine, PlainLine, DocBlock, PlainBlock, NewLine}
  /\ \A i \in 1..(Len(q) - 1) : q[i] \in {DocLine, PlainLine} => q[i + 1] = NewLine

IsDoc(seg) == seg \in {DocLine, DocBlock}

\* the text of a documentation comment
DocText(seg) == IF seg = DocLine THEN <<"a">> ELSE <<"c">>

\* q[i] and q[i + 1] are line ends: the line between them is blank
BlankAt(q, i) == i < Len(q) /\ q[i] = NewLine /\ q[i + 1] = NewLine

\* the last blank line that has a documentation comment after it, 0 when none has
LastBreak(q) ==
  LET breaks == {i \in 1..Len(q) : BlankAt(q, i) /\ \E j \in (i + 1)..Len(q) : IsDoc(q[j])}
  IN IF breaks = {} THEN 0 ELSE CHOOSE i \in breaks : \A j \in breaks : j <= i

\* the texts of the documentation comments of q after index from, in order
RECURSIVE DocTexts(_, _)
DocTexts(q, from) ==
  IF Len(q) <= from THEN <<>>
  ELSE DocTexts(Front(q), from) \o (IF IsDoc(Last(q)) THEN <<DocText(Last(q))>> ELSE <<>>)

\* a blank line stands between two documentation comments
BlankBetweenDocs(q) ==
  \E i, j, k \in 1..Len(q) : i < j /\ j < k /\ IsDoc(q[i]) /\ BlankAt(q, j) /\ IsDoc(q[k])

\* C29: for a text of whole comments scanned from its start, the description is
\* made of the documentation comments after the last blank line that has one
\* after it: what was accumulated before that blank line is discarded, and //
\* and /* */ comments contribute nothing.
C29_NearestRunOnly ==
  (ScanDone /\ input.pos = 0 /\ WholeComments(input.segments)) =>
    output.value = stripComment(DocTexts(input.segments, LastBreak(input.segments)))

\* the loop can go on and its iteration changes nothing: the next iteration is
\* the same one, so the loop runs for ever without a change of state
Stuck ==
  /\ input.kind = "scan" /\ ~output.done /\ Scanning(input.text, output.pos)
  /\ iteration(input.text, Locals) = Locals

\* C30: the scan ends, for every text and every start position, a slash followed
\* by neither a slash nor an asterisk and an unterminated block comment included.
C30_ScanTerminates == <>(input.kind = "scan" => output.done)

====
